---- MODULE Spec2Model ----
(***************************************************************************)
(* Sensor lifecycle orchestrator of the sensor data collector:             *)
(* SensorManager (backend/app/services/sensor_manager.py) with its         *)
(* scheduler jobs, its poll / pre-wake callbacks, the relay commands it    *)
(* sends through VoltageMeterService and the alerts it sends through       *)
(* EmailService.                                                           *)
(*                                                                         *)
(* Every coroutine is cut at its awaits: one action per stretch of code    *)
(* that runs without yielding to the event loop.                           *)
(***************************************************************************)
EXTENDS Integers, FiniteSets, Sequences, Bags, TLC

VARIABLES
    sensors,    \* the sensor dicts, by id (NoSensor: never created, Gone: freed)
    registry,   \* the keys of SensorManager._sensors
    file,       \* sensors_db.json, as last written by _save_to_file
    jobs,       \* the scheduler's job store: a bag of job records
    tasks,      \* the coroutines in flight, by <<kind, sensor id>>
    relay,      \* per voltage meter: the last relay command sent to it
    last_alerts,\* EmailService._last_alerts
    outbox,     \* the alert e-mails the SMTP server accepted, in order
    recovered,  \* history, per sensor: it left a faulted status since its last fault alert
    now,        \* the wall clock, in seconds
    used,       \* how many requests and job firings the run has had
    push,       \* the fetch_and_push call of VoltageMeterService and what its calls returned
    ev          \* what the last step did (history, read by the properties)

vars == <<sensors, registry, file, jobs, tasks, relay, last_alerts, outbox, recovered, now,
          used, push, ev>>

\* The runs explored. Spec: at most MaxOps requests to the control surface (process
\* restarts included) and at most MaxTicks firings of scheduler jobs, MaxOps + 1 of
\* both together. SpecPoll: at
\* most MaxPollSteps requests and firings together, SpecSolo: at most MaxSoloSteps.
\* SpecAlert: at most MaxAlertFirings firings while the clock moves MaxAdvances times.
\* SpecLoad: at most MaxLoadSteps restarts and requests. SpecPush: at most
\* MaxPushCalls calls of the voltage meter's fetch_and_push. SpecFreq: at most
\* MaxFreqSteps requests, the frequencies asked for being 1..MaxMinutes minutes and
\* the last three the route accepts. SpecRelay: at most MaxRelayOps requests, the
\* jobs firing as long as they exist.
MaxOps == 3
MaxTicks == 1
MaxPollSteps == 3
MaxSoloSteps == 3
MaxAlertFirings == 3
MaxAdvances == 2
MaxLoadSteps == 2
MaxPushCalls == 2
MaxFreqSteps == 2
MaxMinutes == 12
MaxRelayOps == 1

----------------------------------------------------------------------------
(* Values *)

PURPLE_AIR == "purple_air"
TEMPEST == "tempest"
VOLTAGE_METER == "voltage_meter"

\* SensorStatus members (in memory) and their values (in the file, in comparisons)
ACTIVE == "ACTIVE"
INACTIVE == "INACTIVE"
ERROR == "ERROR"
OFFLINE == "OFFLINE"
SLEEPING == "SLEEPING"
WAKING == "WAKING"
SensorStatus == {ACTIVE, INACTIVE, ERROR, OFFLINE, SLEEPING, WAKING}

NORMAL == "normal"
POWER_SAVING == "power_saving"

NULL == "null"
NoSensor == [sensor_type |-> "no_sensor"]
Gone == [sensor_type |-> "gone"]
NoTime == -1
NoFrequency == 0

PRE_WAKE_TIME == 30
polling_interval == 60
alert_cooldown_seconds == 300

\* The ids uuid4 can hand out, with the type each is registered as.
Ids == {"p1", "v1", "t1"}
IdType == [p1 |-> PURPLE_AIR, v1 |-> VOLTAGE_METER, t1 |-> TEMPEST]

IsSensor(s) == s.sensor_type \notin {"no_sensor", "gone"}

----------------------------------------------------------------------------
(* The scheduler (AsyncIOScheduler with its default memory job store) *)

PollJobId(sid) == <<"poll", sid>>
PrewakeJobId(sid) == <<"prewake", sid>>

\* IntervalTrigger(seconds=..., start_date=...): without a start date the first
\* run is one interval from now.
IntervalTrigger(seconds, start_date) ==
    [interval |-> seconds,
     start_date |-> IF start_date = NoTime THEN now + seconds ELSE start_date]

JobsWithId(js, id) == {j \in BagToSet(js) : j.id = id}

JobCount(js, id) ==
    BagCardinality([j \in JobsWithId(js, id) |-> js[j]])

remove_job(js, id) ==
    [j \in BagToSet(js) \ JobsWithId(js, id) |-> js[j]]

\* scheduler.add_job(callback, trigger=<trigger instance>, id=..., replace_existing=True,
\* **trigger_args): a trigger passed as an instance is used as it is, and the trigger
\* arguments given beside it (start_date) are not applied to it.
add_job(js, id, trigger, start_date) ==
    remove_job(js, id) (+)
        SetToBag({[id |-> id, interval |-> trigger.interval, next_run |-> trigger.start_date]})

_schedule_pre_wake(js, sid, poll_interval) ==
    LET start_time == now + (poll_interval - PRE_WAKE_TIME)
    IN add_job(js, PrewakeJobId(sid), IntervalTrigger(poll_interval, NoTime), start_time)

\* _start_polling_job with the pre-wake scheduling left out
_start_polling_job_without_pre_wake(js, sensor, sid, frequency) ==
    LET interval == IF frequency # NoFrequency THEN frequency
                    ELSE IF sensor.polling_frequency # NoFrequency
                         THEN sensor.polling_frequency
                         ELSE polling_interval
    IN add_job(js, PollJobId(sid), IntervalTrigger(interval, NoTime), NoTime)

_start_polling_job(js, sensor, sid, frequency) ==
    LET interval == IF frequency # NoFrequency THEN frequency
                    ELSE IF sensor.polling_frequency # NoFrequency
                         THEN sensor.polling_frequency
                         ELSE polling_interval
        js1 == add_job(js, PollJobId(sid), IntervalTrigger(interval, NoTime), NoTime)
    IN IF sensor.sensor_type = PURPLE_AIR /\ sensor.power_mode = POWER_SAVING
       THEN _schedule_pre_wake(js1, sid, interval)
       ELSE js1

\* _stop_polling_job that removes the poll job alone
_stop_polling_job_poll_only(js, sid) == remove_job(js, PollJobId(sid))

_stop_polling_job(js, sid) ==
    remove_job(remove_job(js, PollJobId(sid)), PrewakeJobId(sid))

----------------------------------------------------------------------------
(* Sensor records *)

IP == "10.0.0.5"
NoIp == ""

\* The dict add_purple_air_sensor / add_tempest_sensor / add_voltage_meter_sensor
\* builds; keys a dict does not have read as None through dict.get.
NewSensor(sid, ip, linked) ==
    [sensor_type |-> IdType[sid],
     ip_address |-> ip,
     status |-> INACTIVE,
     is_active |-> FALSE,
     last_active |-> NoTime,
     last_error |-> NULL,
     status_reason |-> NULL,
     power_mode |-> NULL,
     polling_frequency |-> NoFrequency,
     linked_sensor_id |-> linked]

_find_voltage_meter_for_sensor(hs, reg, sid) ==
    LET found == {v \in reg : /\ hs[v].sensor_type = VOLTAGE_METER
                              /\ hs[v].linked_sensor_id = sid}
    IN IF found = {} THEN NULL ELSE CHOOSE v \in found : TRUE

----------------------------------------------------------------------------
(* Persistence: sensors_db.json *)

NoRecord == [sensor_type |-> "no_record"]

\* What reading a key that a record does not have comes to: sensor["status"] raises
\* KeyError.
NoKey == "no_key"

StatusValue ==
    [ACTIVE |-> "active", INACTIVE |-> "inactive", ERROR |-> "error",
     OFFLINE |-> "offline", SLEEPING |-> "sleeping", WAKING |-> "waking"]

\* SensorStatus(value): the member with that value; ValueError (NULL here) if none.
SensorStatusOf(value) ==
    IF \E m \in SensorStatus : StatusValue[m] = value
    THEN CHOOSE m \in SensorStatus : StatusValue[m] = value
    ELSE NULL

isoformat(t) == IF t = NoTime THEN <<"null">> ELSE <<"iso", t>>
fromisoformat(x) == IF x = <<"null">> THEN NoTime ELSE x[2]

\* One sensor as json.dump writes it.
Serialize(s) ==
    [s EXCEPT !.status = StatusValue[s.status],
              !.last_active = isoformat(s.last_active)]

\* a load that starts every sensor over: INACTIVE, with no error
DeserializeFresh(r) ==
    [r EXCEPT !.status = INACTIVE,
              !.last_error = NULL,
              !.last_active = fromisoformat(r.last_active)]

\* One record as _load_from_file rebuilds it.
Deserialize(r) ==
    [r EXCEPT !.status = SensorStatusOf(r.status),
              !.last_active = fromisoformat(r.last_active)]

\* a save that writes every sensor dict still alive, registered or not
_save_to_file_every_dict(hs, reg) ==
    [sid \in Ids |-> IF IsSensor(hs[sid]) THEN Serialize(hs[sid]) ELSE NoRecord]

_save_to_file(hs, reg) ==
    [sid \in Ids |-> IF sid \in reg THEN Serialize(hs[sid]) ELSE NoRecord]

\* datetime.fromisoformat takes what isoformat wrote and raises ValueError otherwise;
\* a last_active of null is not converted.
ValidTimestamp(x) == x = <<"null">> \/ x[1] = "iso"

\* a load that does not rebuild the status
ParseableByType(r) == r.sensor_type \in {PURPLE_AIR, TEMPEST, VOLTAGE_METER}

\* The record gets through the conversions of _load_from_file; a ValueError, KeyError
\* or TypeError in one of them makes the load skip it.
Parseable(r) ==
    /\ r.sensor_type \in {PURPLE_AIR, TEMPEST, VOLTAGE_METER}
    /\ SensorStatusOf(r.status) # NULL
    /\ ValidTimestamp(r.last_active)

_load_from_file(f, old) ==
    [sid \in Ids |->
        IF f[sid] # NoRecord /\ Parseable(f[sid]) THEN Deserialize(f[sid])
        ELSE IF old[sid] = NoSensor THEN NoSensor ELSE Gone]

RECURSIVE StartAll(_, _, _)
\* the loop of _restart_active_sensors over the loaded sensors
StartAll(js, hs, todo) ==
    IF todo = {} THEN js
    ELSE LET sid == CHOOSE x \in todo : TRUE
         IN StartAll(IF hs[sid].is_active
                     THEN _start_polling_job(js, hs[sid], sid, NoFrequency)
                     ELSE js,
                     hs, todo \ {sid})

\* a start that re-creates no job
_restart_no_sensors(hs, reg) == EmptyBag

_restart_active_sensors(hs, reg) == StartAll(EmptyBag, hs, reg)

----------------------------------------------------------------------------
(* EmailService: the alert cooldown *)

is_configured == TRUE

FaultKey(sid) == <<sid, "fault">>
RecoveryKey(sid) == <<sid, "recovery">>
AlertKeys == {FaultKey(sid) : sid \in Ids} \cup {RecoveryKey(sid) : sid \in Ids}

\* a cooldown that never holds an alert back
_can_send_alert_always(la, key) == TRUE

_can_send_alert(la, key) ==
    \/ la[key] = NoTime
    \/ now - la[key] >= alert_cooldown_seconds

_record_alert(la, key) == [la EXCEPT ![key] = now]

\* a fault alert that is sent and not recorded
send_sensor_error_alert_unrecorded(la, sid) ==
    IF is_configured /\ _can_send_alert(la, FaultKey(sid))
    THEN [sent |-> TRUE, la |-> la]
    ELSE [sent |-> FALSE, la |-> la]

\* send_sensor_error_alert: <<sent, _last_alerts afterwards>>
send_sensor_error_alert(la, sid) ==
    IF is_configured /\ _can_send_alert(la, FaultKey(sid))
    THEN [sent |-> TRUE, la |-> _record_alert(la, FaultKey(sid))]
    ELSE [sent |-> FALSE, la |-> la]

\* send_sensor_recovery_alert: records the recovery and forgets the fault alert
send_sensor_recovery_alert(la, sid) ==
    IF is_configured /\ _can_send_alert(la, RecoveryKey(sid))
    THEN [sent |-> TRUE,
          la |-> [_record_alert(la, RecoveryKey(sid)) EXCEPT ![FaultKey(sid)] = NoTime]]
    ELSE [sent |-> FALSE, la |-> la]

----------------------------------------------------------------------------
(* _update_sensor_status *)

error_statuses == {"error", "inactive", "offline"}
ok_statuses == {"active", "sleeping", "waking"}

\* no transition counts as expected
is_expected_transition_never(old_status, new_status_str) == FALSE

is_expected_transition(old_status, new_status_str) ==
    \/ old_status = "sleeping" /\ new_status_str = "inactive"
    \/ old_status = "inactive" /\ new_status_str = "sleeping"
    \/ old_status = "waking" /\ new_status_str = "inactive"

\* The sensor dict afterwards, and the alerts it asked EmailService for.
_update_sensor_status(s, new_status, error_message, error_type) ==
    LET old_status == StatusValue[s.status]
        new_status_str == StatusValue[new_status]
    IN IF old_status = new_status_str
       THEN [sensor |-> IF error_message # NULL
                        THEN [s EXCEPT !.last_error = error_message]
                        ELSE s,
             fault |-> FALSE,
             recovery |-> FALSE]
       ELSE [sensor |-> [s EXCEPT !.status = new_status,
                                  !.status_reason = error_type,
                                  !.last_error = error_message],
             fault |-> /\ new_status_str \in error_statuses
                       /\ old_status \in ok_statuses
                       /\ error_message # NULL
                       /\ ~is_expected_transition(old_status, new_status_str),
             recovery |-> /\ old_status \in error_statuses
                          /\ new_status_str \in {"active", "sleeping"}
                          /\ ~(old_status = "inactive" /\ new_status_str = "sleeping")]

----------------------------------------------------------------------------
(* Coroutines in flight *)

TaskKinds == {"poll", "prewake", "mode", "fetch_now"}
TaskKeys == TaskKinds \X Ids

\* pc: where the coroutine is suspended; vm, power_mode: its local variables
\* voltage_meter and power_mode (old_mode in set_power_mode_async); result: the
\* fetch outcome it holds; offs: the relay-OFF commands this run has sent.
Idle == [pc |-> "idle", vm |-> NULL, power_mode |-> NULL, result |-> NULL, offs |-> 0]

\* A sensor dict lives as long as the registry or a suspended coroutine refers to it.
Referenced(ts, sid) ==
    \E k \in TaskKeys : ts[k].pc # "idle" /\ (k[2] = sid \/ ts[k].vm = sid)

Collect(hs, reg, ts) ==
    [sid \in Ids |->
        IF IsSensor(hs[sid]) /\ sid \notin reg /\ ~Referenced(ts, sid)
        THEN Gone ELSE hs[sid]]

NoCmd == <<NULL, NULL>>

NoTelemetry == [load_on |-> FALSE, voltage_v |-> -1, v_cutoff |-> -1]

\* op, sid: the operation or callback stretch that ran, and its sensor; ok: it did not
\* return early; final: the coroutine ended; fault, recovery: the alert e-mails sent;
\* cmd: the relay command sent, <<voltage meter, command>>; fetch: a fetch was started;
\* outcome, telemetry, power_mode: what a poll classified; offs: the relay-OFF commands
\* the poll sent; old_mode, vm: the mode a power-mode change left and the voltage
\* meter it found; old_status: the status a poll's update or turn_off_sensor found; minutes: the
\* minutes a frequency request asked for.
Ev(op, sid) ==
    [op |-> op, sid |-> sid, ok |-> TRUE, final |-> TRUE,
     fault |-> FALSE, recovery |-> FALSE, cmd |-> NoCmd, fetch |-> FALSE,
     outcome |-> NULL, telemetry |-> NoTelemetry, power_mode |-> NULL,
     offs |-> 0, old_mode |-> NULL, vm |-> NULL, old_status |-> NULL,
     minutes |-> NoFrequency]

----------------------------------------------------------------------------
(* VoltageMeterService.fetch_and_push and push_to_endpoint *)

max_retries == 2
retry_delay == 3

\* What the upload's POST comes to: an HTTP status, or NoResponse when the client
\* raises something that is no HTTPStatusError (a timeout, a refused connection, a
\* header it cannot encode).
NoResponse == 0
Responses == {NoResponse, 200, 401, 500, 502, 503, 504}

\* response.raise_for_status() raises HTTPStatusError (of the statuses above, for
\* those from 400 on)
IsHTTPStatusError(response) == response >= 400

\* pc: where the call is suspended; attempt: the loop variable of push_to_endpoint;
\* posts, slept: the POSTs sent and the seconds slept by this call; calls: the calls
\* started; response: what the last POST came to; returned: what the calls returned,
\* in order.
NoPush == [pc |-> "idle", attempt |-> 0, posts |-> 0, slept |-> 0, calls |-> 0,
           response |-> NoResponse, returned |-> <<>>]

\* The dict fetch_and_push returns
Outcome(status, error_type, http_status) ==
    [status |-> status, error_type |-> error_type, http_status |-> http_status]

FetchAndPushReturns(result) ==
    push' = [push EXCEPT !.pc = "idle", !.response = result.http_status,
                         !.returned = Append(@, result)]

\* fetch_and_push whose handlers are those for HTTPStatusError alone
fetch_and_push_except_status_only(response) ==
    IF IsHTTPStatusError(response)
    THEN FetchAndPushReturns(
             Outcome("error",
                     IF response \in {502, 503, 504} THEN "cloud_error" ELSE "http_error",
                     response))
    ELSE push' = [push EXCEPT !.pc = "raised", !.response = response]

\* The except clauses of fetch_and_push, for what push_to_endpoint raised
fetch_and_push_except(response) ==
    IF IsHTTPStatusError(response)
    THEN FetchAndPushReturns(
             Outcome("error",
                     IF response \in {502, 503, 504} THEN "cloud_error" ELSE "http_error",
                     response))
    ELSE FetchAndPushReturns(Outcome("error", "unknown_error", NoResponse))

\* fetch_and_push is called and awaits get_status
fetch_and_push ==
    /\ push.pc = "idle"
    /\ push.calls < MaxPushCalls
    /\ push' = [push EXCEPT !.pc = "get_status", !.calls = @ + 1,
                            !.attempt = 0, !.posts = 0, !.slept = 0,
                            !.response = NoResponse]

\* get_status came back, with a reading or None; with a reading the first POST of
\* push_to_endpoint is sent
GetStatusDone(reading) ==
    /\ push.pc = "get_status"
    /\ IF reading
       THEN push' = [push EXCEPT !.pc = "post", !.posts = @ + 1]
       ELSE FetchAndPushReturns(Outcome("error", "connection_error", NoResponse))

\* the POST came back or raised
PostDone(response) ==
    /\ push.pc = "post"
    /\ IF ~IsHTTPStatusError(response) /\ response # NoResponse
       THEN FetchAndPushReturns(Outcome("success", NULL, response))
       ELSE IF /\ IsHTTPStatusError(response)
               /\ response \in {502, 503, 504}
               /\ push.attempt < max_retries - 1
       THEN push' = [push EXCEPT !.pc = "sleep", !.response = response]
       ELSE fetch_and_push_except(response)

\* asyncio.sleep(retry_delay) is over: the loop goes on to its next POST
RetrySleepDone ==
    /\ push.pc = "sleep"
    /\ push' = [push EXCEPT !.pc = "post", !.attempt = @ + 1, !.posts = @ + 1,
                            !.slept = @ + retry_delay]

----------------------------------------------------------------------------
(* Control surface: the operations that run without awaiting *)

\* The stores the process is started on: empty, or holding sensors registered by an
\* earlier run and not turned on yet (a Purple Air sensor, alone or with a voltage
\* meter linked to it, with or without an address).
InitialStores ==
    LET none == [sid \in Ids |-> NoSensor]
        p1 == [none EXCEPT !["p1"] = NewSensor("p1", IP, NULL)]
    IN {_save_to_file(none, {})}
       \cup {_save_to_file([p1 EXCEPT !["v1"] = NewSensor("v1", ip, "p1")], {"p1", "v1"}) :
                ip \in {IP, NoIp}}

\* Stores written while the Purple Air sensor was on: after turn_on_sensor, in
\* either power mode (turn_on_sensor leaves a power-saving sensor SLEEPING).
ActiveStores ==
    LET none == [sid \in Ids |-> NoSensor]
        on(mode) == [NewSensor("p1", IP, NULL) EXCEPT
                        !.is_active = TRUE,
                        !.power_mode = mode,
                        !.status = IF mode = POWER_SAVING THEN SLEEPING ELSE ACTIVE]
    IN {_save_to_file([none EXCEPT !["p1"] = on(mode),
                                   !["v1"] = NewSensor("v1", IP, "p1")], {"p1", "v1"}) :
           mode \in {NORMAL, POWER_SAVING}}

\* SensorManager.__init__ on a store
Boot(stores) ==
    /\ now = 0
    /\ file \in stores
    /\ registry = {sid \in Ids : file[sid] # NoRecord /\ Parseable(file[sid])}
    /\ sensors = _load_from_file(file, [sid \in Ids |-> NoSensor])
    /\ jobs = _restart_active_sensors(sensors, registry)
    /\ tasks = [k \in TaskKeys |-> Idle]
    /\ relay = [sid \in Ids |-> NULL]
    /\ last_alerts = [k \in AlertKeys |-> NoTime]
    /\ outbox = <<>>
    /\ recovered = [sid \in Ids |-> FALSE]
    /\ used = [ops |-> 0, ticks |-> 0]
    /\ push = NoPush
    /\ ev = Ev("init", NULL)

Init == Boot(InitialStores)

InitPoll == Boot(InitialStores \cup ActiveStores)

\* POST /purple-air, /tempest, /voltage-meter, then add_*_sensor. A voltage meter may
\* be registered without an address and may name the Purple Air sensor it powers.
Register(sid, ip, linked) ==
    /\ sensors[sid] = NoSensor
    /\ IdType[sid] # VOLTAGE_METER => ip = IP /\ linked = NULL
    /\ linked # NULL => linked \in registry /\ sensors[linked].sensor_type = PURPLE_AIR
    /\ sensors' = [sensors EXCEPT ![sid] = NewSensor(sid, ip, linked)]
    /\ registry' = registry \cup {sid}
    /\ file' = _save_to_file(sensors', registry')
    /\ ev' = Ev("register", sid)
    /\ UNCHANGED <<jobs, tasks, relay, last_alerts, outbox, now>>

\* turn_on_sensor that sets ACTIVE whatever the power mode
turn_on_sensor_always_active(sid) ==
    /\ sid \in registry
    /\ LET sensor == sensors[sid]
           cleared == [sensor EXCEPT !.last_error = NULL, !.status_reason = NULL]
       IN IF sensor.is_active
          THEN /\ ev' = [Ev("turn_on", sid) EXCEPT !.ok = FALSE]
               /\ UNCHANGED <<sensors, jobs, file>>
          ELSE /\ jobs' = _start_polling_job(jobs, cleared, sid, NoFrequency)
               /\ sensors' = [sensors EXCEPT ![sid] =
                                [cleared EXCEPT !.status = ACTIVE, !.is_active = TRUE]]
               /\ file' = _save_to_file(sensors', registry)
               /\ ev' = Ev("turn_on", sid)
    /\ UNCHANGED <<registry, tasks, relay, last_alerts, outbox, now>>

turn_on_sensor(sid) ==
    /\ sid \in registry
    /\ LET sensor == sensors[sid]
           cleared == [sensor EXCEPT !.last_error = NULL, !.status_reason = NULL]
           status == IF /\ sensor.sensor_type = PURPLE_AIR
                        /\ sensor.power_mode = POWER_SAVING
                     THEN SLEEPING ELSE ACTIVE
       IN IF sensor.is_active
          THEN /\ ev' = [Ev("turn_on", sid) EXCEPT !.ok = FALSE]
               /\ UNCHANGED <<sensors, jobs, file>>
          ELSE /\ jobs' = _start_polling_job(jobs, cleared, sid, NoFrequency)
               /\ sensors' = [sensors EXCEPT ![sid] =
                                [cleared EXCEPT !.status = status, !.is_active = TRUE]]
               /\ file' = _save_to_file(sensors', registry)
               /\ ev' = Ev("turn_on", sid)
    /\ UNCHANGED <<registry, tasks, relay, last_alerts, outbox, now>>

\* turn_off_sensor over a scheduler whose remove_job raises, uncaught, for a job
\* that is not there
turn_off_sensor_strict(sid) ==
    /\ sid \in registry
    /\ IF JobCount(jobs, PollJobId(sid)) = 0 \/ JobCount(jobs, PrewakeJobId(sid)) = 0
       THEN /\ jobs' = _stop_polling_job(jobs, sid)
            /\ ev' = [Ev("turn_off", sid) EXCEPT !.ok = FALSE,
                                                 !.old_status = sensors[sid].status]
            /\ UNCHANGED <<sensors, file>>
       ELSE /\ jobs' = _stop_polling_job(jobs, sid)
            /\ sensors' = [sensors EXCEPT ![sid].is_active = FALSE, ![sid].status = INACTIVE]
            /\ file' = _save_to_file(sensors', registry)
            /\ ev' = [Ev("turn_off", sid) EXCEPT !.old_status = sensors[sid].status]
    /\ UNCHANGED <<registry, tasks, relay, last_alerts, outbox, now>>

turn_off_sensor(sid) ==
    /\ sid \in registry
    /\ jobs' = _stop_polling_job(jobs, sid)
    /\ sensors' = [sensors EXCEPT ![sid].is_active = FALSE, ![sid].status = INACTIVE]
    /\ file' = _save_to_file(sensors', registry)
    /\ ev' = [Ev("turn_off", sid) EXCEPT !.old_status = sensors[sid].status]
    /\ UNCHANGED <<registry, tasks, relay, last_alerts, outbox, now>>

\* delete_sensor without the call of _stop_polling_job
delete_sensor_keeping_jobs(sid) ==
    /\ sid \in registry
    /\ registry' = registry \ {sid}
    /\ sensors' = Collect(sensors, registry', tasks)
    /\ file' = _save_to_file(sensors', registry')
    /\ ev' = Ev("delete", sid)
    /\ UNCHANGED <<jobs, tasks, relay, last_alerts, outbox, now>>

delete_sensor(sid) ==
    /\ sid \in registry
    /\ jobs' = _stop_polling_job(jobs, sid)
    /\ registry' = registry \ {sid}
    /\ sensors' = Collect(sensors, registry', tasks)
    /\ file' = _save_to_file(sensors', registry')
    /\ ev' = Ev("delete", sid)
    /\ UNCHANGED <<tasks, relay, last_alerts, outbox, now>>

\* The minutes POST /{id}/frequency is tried with (it accepts 1..1440).
FrequencyInputs == {3, 7, 8}

\* a rounding that goes up to the next integer
round_up(num, den) ==
    IF num % den = 0 THEN num \div den ELSE (num \div den) + 1

\* round(): to the nearest integer, a half to the even one
round(num, den) ==
    LET q == num \div den
        r == num % den
    IN IF 2 * r < den THEN q
       ELSE IF 2 * r > den THEN q + 1
       ELSE IF q % 2 = 0 THEN q ELSE q + 1

validate_polling_frequency(minutes) == 1 <= minutes /\ minutes <= 1440

\* a quantization that does not clamp to 5 first
QuantizeUnclamped(minutes) == round(minutes, 5) * 5

Quantize(minutes) ==
    LET clamped == IF minutes < 5 THEN 5 ELSE minutes
    IN round(clamped, 5) * 5

\* set_polling_frequency that restarts the jobs of a sensor that is switched off too
set_polling_frequency_restarting(sid, minutes) ==
    /\ sid \in registry
    /\ validate_polling_frequency(minutes)
    /\ LET interval_seconds == Quantize(minutes) * 60
           sensor == [sensors[sid] EXCEPT !.polling_frequency = interval_seconds]
       IN /\ sensors' = [sensors EXCEPT ![sid] = sensor]
          /\ jobs' = _start_polling_job(_stop_polling_job(jobs, sid), sensor, sid,
                                        interval_seconds)
    /\ file' = _save_to_file(sensors', registry)
    /\ ev' = [Ev("set_polling_frequency", sid) EXCEPT !.minutes = minutes]
    /\ UNCHANGED <<registry, tasks, relay, last_alerts, outbox, now>>

set_polling_frequency(sid, minutes) ==
    /\ sid \in registry
    /\ validate_polling_frequency(minutes)
    /\ LET interval_seconds == Quantize(minutes) * 60
           sensor == [sensors[sid] EXCEPT !.polling_frequency = interval_seconds]
       IN /\ sensors' = [sensors EXCEPT ![sid] = sensor]
          /\ jobs' = IF sensor.is_active
                     THEN _start_polling_job(_stop_polling_job(jobs, sid), sensor, sid,
                                             interval_seconds)
                     ELSE jobs
    /\ file' = _save_to_file(sensors', registry)
    /\ ev' = [Ev("set_polling_frequency", sid) EXCEPT !.minutes = minutes]
    /\ UNCHANGED <<registry, tasks, relay, last_alerts, outbox, now>>

\* PUT /{id}: the fields update_sensor writes that the orchestrator reads.
UpdateRequests ==
    {[field |-> "linked_sensor_id", value |-> v] : v \in {NULL, "p1"}}
    \cup {[field |-> "ip_address", value |-> v] : v \in {NoIp, IP}}
    \cup {[field |-> "power_mode", value |-> v] : v \in {NORMAL, POWER_SAVING}}

update_sensor(sid, req) ==
    /\ sid \in registry
    /\ req.field = "linked_sensor_id" =>
          /\ sensors[sid].sensor_type = VOLTAGE_METER
          /\ req.value # NULL =>
                req.value \in registry /\ sensors[req.value].sensor_type = PURPLE_AIR
    /\ req.field = "ip_address" => sensors[sid].sensor_type = VOLTAGE_METER
    /\ sensors' = [sensors EXCEPT ![sid] =
                     CASE req.field = "linked_sensor_id" -> [@ EXCEPT !.linked_sensor_id = req.value]
                       [] req.field = "ip_address" -> [@ EXCEPT !.ip_address = req.value]
                       [] req.field = "power_mode" -> [@ EXCEPT !.power_mode = req.value]]
    /\ file' = _save_to_file(sensors', registry)
    /\ ev' = Ev("update", sid)
    /\ UNCHANGED <<registry, jobs, tasks, relay, last_alerts, outbox, now>>

\* The process is stopped and started again: SensorManager.__init__.
Restart ==
    /\ registry' = {sid \in Ids : file[sid] # NoRecord /\ Parseable(file[sid])}
    /\ sensors' = _load_from_file(file, sensors)
    /\ jobs' = _restart_active_sensors(sensors', registry')
    /\ tasks' = [k \in TaskKeys |-> Idle]
    /\ last_alerts' = [k \in AlertKeys |-> NoTime]
    /\ ev' = Ev("restart", NULL)
    /\ UNCHANGED <<file, relay, outbox, now>>

----------------------------------------------------------------------------
(* The fetch adapters and the relay device, as the orchestrator sees them *)

\* fetch_and_push returns a structured outcome; "raise" is an exception getting out.
FetchOutcomes == {"success", "connection_error", "timeout", "cloud_error", "raise"}

error_message ==
    [connection_error |-> "Cannot connect to sensor",
     timeout |-> "Request timed out",
     cloud_error |-> "Cloud service error",
     sleeping |-> "Sleeping (power saving mode)",
     battery_low |-> "Battery Low - Sensor powered off",
     wifi_error |-> "WiFi/Network Error or relay OFF but voltage OK",
     poll_error |-> "Poll error"]

\* get_status: None, or the voltage (in tenths of a volt), the relay and the cutoff.
Voltages == {115, 120, 130}
Cutoffs == {120}
\* With the relay on the voltage plays no part in what the orchestrator does, and
\* one reading stands for all.
Telemetries ==
    {NoTelemetry}
    \cup [load_on : {FALSE}, voltage_v : Voltages, v_cutoff : Cutoffs]
    \cup [load_on : {TRUE}, voltage_v : {130}, v_cutoff : Cutoffs]

\* _enhance_error_with_voltage_meter_status that takes a relay that is off in
\* power-saving mode for sleep without looking at the voltage
_enhance_error_without_voltage_check(error_type, vm_status, power_mode) ==
    IF vm_status = NoTelemetry THEN error_type
    ELSE IF ~vm_status.load_on
         THEN IF power_mode = POWER_SAVING
              THEN "sleeping"
              ELSE IF vm_status.voltage_v < vm_status.v_cutoff
                   THEN "battery_low"
                   ELSE "wifi_error"
         ELSE "wifi_error"

\* _enhance_error_with_voltage_meter_status: the error_type of the result afterwards
_enhance_error_with_voltage_meter_status(error_type, vm_status, power_mode) ==
    IF vm_status = NoTelemetry THEN error_type
    ELSE IF ~vm_status.load_on
         THEN IF power_mode = POWER_SAVING /\ vm_status.voltage_v >= vm_status.v_cutoff
              THEN "sleeping"
              ELSE IF vm_status.voltage_v < vm_status.v_cutoff
                   THEN "battery_low"
                   ELSE "wifi_error"
         ELSE "wifi_error"

\* a classification that counts an unreachable sensor as a real error
ClassifyPollErrorAllReal(s, error_type, power_saving_branch) ==
    IF error_type = "battery_low"
    THEN _update_sensor_status(s, OFFLINE, error_message[error_type], error_type)
    ELSE IF power_saving_branch /\ error_type = "sleeping"
    THEN _update_sensor_status(s, SLEEPING, NULL, NULL)
    ELSE _update_sensor_status(s, ERROR, error_message[error_type], error_type)

\* The status update a poll makes for a failed fetch, by the branch it is in.
ClassifyPollError(s, error_type, power_saving_branch) ==
    IF error_type = "battery_low"
    THEN _update_sensor_status(s, OFFLINE, error_message[error_type], error_type)
    ELSE IF power_saving_branch /\ error_type = "sleeping"
    THEN _update_sensor_status(s, SLEEPING, NULL, NULL)
    ELSE IF error_type \in {"connection_error", "timeout"}
    THEN _update_sensor_status(s, INACTIVE, error_message[error_type], error_type)
    ELSE _update_sensor_status(s, ERROR, error_message[error_type], error_type)

\* The e-mails an update asked for, through the cooldown: what was sent and the
\* cooldown table afterwards.
SendAlerts(la, sid, u) ==
    LET f == IF u.fault THEN send_sensor_error_alert(la, sid)
             ELSE [sent |-> FALSE, la |-> la]
        r == IF u.recovery THEN send_sensor_recovery_alert(f.la, sid)
             ELSE [sent |-> FALSE, la |-> f.la]
    IN [fault |-> f.sent, recovery |-> r.sent, la |-> r.la,
        sent |-> (IF f.sent THEN <<[kind |-> "fault", sid |-> sid, at |-> now]>> ELSE <<>>)
                 \o (IF r.sent THEN <<[kind |-> "recovery", sid |-> sid, at |-> now]>> ELSE <<>>)]

\* A job fires when it exists and no earlier run of it is still going
\* (max_instances is 1); the run is handed to the event loop and starts later.
JobFires(kind, sid) ==
    /\ JobCount(jobs, <<kind, sid>>) > 0
    /\ tasks[<<kind, sid>>].pc = "idle"

Submit(kind, sid) ==
    /\ JobFires(kind, sid)
    /\ tasks' = [tasks EXCEPT ![<<kind, sid>>] = [Idle EXCEPT !.pc = "submitted"]]
    /\ ev' = [Ev("submit_" \o kind, sid) EXCEPT !.final = FALSE]
    /\ UNCHANGED <<sensors, registry, file, jobs, relay, last_alerts, outbox, now>>

\* A coroutine ends: its locals are dropped.
Finish(key) == [tasks EXCEPT ![key] = Idle]

----------------------------------------------------------------------------
(* _pre_wake_sensor *)

PreWakeStart(sid) ==
    LET key == <<"prewake", sid>>
        vm == _find_voltage_meter_for_sensor(sensors, registry, sid)
    IN /\ tasks[key].pc = "submitted"
       /\ IF \/ sid \notin registry
             \/ sensors[sid].power_mode # POWER_SAVING
             \/ vm = NULL
             \/ sensors[vm].ip_address = NoIp
          THEN /\ tasks' = Finish(key)
               /\ sensors' = Collect(sensors, registry, tasks')
               /\ ev' = [Ev("prewake_start", sid) EXCEPT !.ok = FALSE]
               /\ UNCHANGED <<file, relay>>
          ELSE /\ sensors' = [sensors EXCEPT ![sid].status = WAKING,
                                             ![sid].status_reason = NULL]
               /\ file' = _save_to_file(sensors', registry)
               /\ relay' = [relay EXCEPT ![vm] = "on"]
               /\ tasks' = [tasks EXCEPT ![key] = [Idle EXCEPT !.pc = "relay_on", !.vm = vm]]
               /\ ev' = [Ev("prewake_start", sid) EXCEPT !.final = FALSE, !.cmd = <<vm, "on">>]
       /\ UNCHANGED <<registry, jobs, last_alerts, outbox, now>>

\* set_relay(on=True) came back: True, or False after any failure
PreWakeRelayDone(sid, success) ==
    LET key == <<"prewake", sid>>
        failed == [sensors EXCEPT ![sid].status = ERROR,
                                  ![sid].status_reason = "prewake_failed"]
    IN /\ tasks[key].pc = "relay_on"
       /\ tasks' = Finish(key)
       /\ IF success
          THEN /\ sensors' = Collect(sensors, registry, tasks')
               /\ UNCHANGED file
          ELSE /\ sensors' = Collect(failed, registry, tasks')
               /\ file' = _save_to_file(failed, registry)
       /\ ev' = [Ev("prewake_done", sid) EXCEPT !.ok = success]
       /\ UNCHANGED <<registry, jobs, relay, last_alerts, outbox, now>>

----------------------------------------------------------------------------
(* _poll_purple_air_sensor, _poll_tempest_sensor, _poll_voltage_meter *)

\* the branch test comparing the mode with the member's name, not its value
PowerSavingBranchByName(t) == t.power_mode = "POWER_SAVING" /\ t.vm # NULL

\* The power-saving branch of _poll_purple_air_sensor
PowerSavingBranch(t) == t.power_mode = POWER_SAVING /\ t.vm # NULL

\* the end of a poll without the save of `finally`
PollEndsUnsaved(sid, op, u, last_active, outcome, vm_status) ==
    LET key == <<"poll", sid>>
        a == SendAlerts(last_alerts, sid, u)
        sensor == [u.sensor EXCEPT !.last_active = last_active]
        updated == [sensors EXCEPT ![sid] = sensor]
    IN /\ tasks' = Finish(key)
       /\ sensors' = Collect(updated, registry, tasks')
       /\ UNCHANGED file
       /\ last_alerts' = a.la
       /\ outbox' = outbox \o a.sent
       /\ ev' = [Ev(op, sid) EXCEPT !.fault = a.fault, !.recovery = a.recovery,
                                    !.power_mode = tasks[key].power_mode,
                                    !.outcome = outcome, !.telemetry = vm_status,
                                    !.offs = tasks[key].offs,
                                    !.old_status = sensors[sid].status]

\* The end of a poll: the status update with its alerts, then the save of `finally`.
PollEnds(sid, op, u, last_active, outcome, vm_status) ==
    LET key == <<"poll", sid>>
        a == SendAlerts(last_alerts, sid, u)
        sensor == [u.sensor EXCEPT !.last_active = last_active]
        updated == [sensors EXCEPT ![sid] = sensor]
    IN /\ tasks' = Finish(key)
       /\ sensors' = Collect(updated, registry, tasks')
       /\ file' = _save_to_file(updated, registry)
       /\ last_alerts' = a.la
       /\ outbox' = outbox \o a.sent
       /\ ev' = [Ev(op, sid) EXCEPT !.fault = a.fault, !.recovery = a.recovery,
                                    !.power_mode = tasks[key].power_mode,
                                    !.outcome = outcome, !.telemetry = vm_status,
                                    !.offs = tasks[key].offs,
                                    !.old_status = sensors[sid].status]

\* a poll that does not fetch for a sensor left in ERROR
PollStartUnlessError(sid) ==
    LET key == <<"poll", sid>>
    IN /\ tasks[key].pc = "submitted"
       /\ IF sid \notin registry \/ sensors[sid].status = ERROR
          THEN /\ tasks' = Finish(key)
               /\ sensors' = Collect(sensors, registry, tasks')
               /\ ev' = [Ev("poll_start", sid) EXCEPT !.ok = FALSE]
          ELSE /\ tasks' = [tasks EXCEPT ![key] =
                     [Idle EXCEPT !.pc = "fetch",
                                  !.power_mode = sensors[sid].power_mode,
                                  !.vm = IF sensors[sid].sensor_type = PURPLE_AIR
                                         THEN _find_voltage_meter_for_sensor(sensors, registry, sid)
                                         ELSE NULL]]
               /\ ev' = [Ev("poll_start", sid) EXCEPT !.final = FALSE, !.fetch = TRUE]
               /\ UNCHANGED sensors
       /\ UNCHANGED <<registry, file, jobs, relay, last_alerts, outbox, now>>

PollStart(sid) ==
    LET key == <<"poll", sid>>
    IN /\ tasks[key].pc = "submitted"
       /\ IF sid \notin registry
          THEN /\ tasks' = Finish(key)
               /\ sensors' = Collect(sensors, registry, tasks')
               /\ ev' = [Ev("poll_start", sid) EXCEPT !.ok = FALSE]
          ELSE /\ tasks' = [tasks EXCEPT ![key] =
                     [Idle EXCEPT !.pc = "fetch",
                                  !.power_mode = sensors[sid].power_mode,
                                  !.vm = IF sensors[sid].sensor_type = PURPLE_AIR
                                         THEN _find_voltage_meter_for_sensor(sensors, registry, sid)
                                         ELSE NULL]]
               /\ ev' = [Ev("poll_start", sid) EXCEPT !.final = FALSE, !.fetch = TRUE]
               /\ UNCHANGED sensors
       /\ UNCHANGED <<registry, file, jobs, relay, last_alerts, outbox, now>>

\* fetch_and_push came back (or raised)
PollFetchDone(sid, outcome) ==
    LET key == <<"poll", sid>>
        t == tasks[key]
        s == sensors[sid]
    IN /\ t.pc = "fetch"
       /\ IdType[sid] = VOLTAGE_METER => outcome # "timeout"
       /\ IF outcome = "raise"
          THEN /\ PollEnds(sid, "poll_raised",
                           _update_sensor_status(s, ERROR, error_message["poll_error"], "poll_error"),
                           s.last_active, outcome, NoTelemetry)
               /\ UNCHANGED relay
          ELSE IF PowerSavingBranch(t)
          THEN \* asyncio.sleep(POWER_OFF_DELAY), then set_relay(vm_ip, on=False)
               /\ tasks' = [tasks EXCEPT ![key].pc = "relay_off", ![key].result = outcome,
                                         ![key].offs = t.offs + 1]
               /\ relay' = [relay EXCEPT ![t.vm] = "off"]
               /\ ev' = [Ev("poll_fetch_done", sid) EXCEPT !.final = FALSE, !.outcome = outcome,
                                                          !.cmd = <<t.vm, "off">>]
               /\ UNCHANGED <<sensors, file, last_alerts, outbox>>
          ELSE IF outcome = "success"
          THEN /\ PollEnds(sid, "poll_done", _update_sensor_status(s, ACTIVE, NULL, NULL), now,
                           outcome, NoTelemetry)
               /\ UNCHANGED relay
          ELSE IF t.vm # NULL
          THEN /\ tasks' = [tasks EXCEPT ![key].pc = "enhance", ![key].result = outcome]
               /\ ev' = [Ev("poll_fetch_done", sid) EXCEPT !.final = FALSE, !.outcome = outcome]
               /\ UNCHANGED <<sensors, file, relay, last_alerts, outbox>>
          ELSE /\ PollEnds(sid, "poll_done", ClassifyPollError(s, outcome, FALSE), s.last_active,
                           outcome, NoTelemetry)
               /\ UNCHANGED relay
       /\ UNCHANGED <<registry, jobs, now>>

\* a poll that takes a failed relay-OFF for a fault of the sensor, as the pre-wake
\* takes a failed relay-ON
PollRelayOffDoneFaulting(sid, success) ==
    LET key == <<"poll", sid>>
        t == tasks[key]
    IN /\ t.pc = "relay_off"
       /\ IF ~success
          THEN PollEnds(sid, "poll_done",
                        [sensor |-> [sensors[sid] EXCEPT !.status = ERROR,
                                                         !.status_reason = "relay_off_failed"],
                         fault |-> FALSE, recovery |-> FALSE],
                        sensors[sid].last_active, t.result, NoTelemetry)
          ELSE IF t.result = "success"
          THEN PollEnds(sid, "poll_done",
                        _update_sensor_status(sensors[sid], SLEEPING, NULL, NULL), now,
                        t.result, NoTelemetry)
          ELSE /\ tasks' = [tasks EXCEPT ![key].pc = "enhance"]
               /\ ev' = [Ev("poll_relay_off_done", sid) EXCEPT !.final = FALSE]
               /\ UNCHANGED <<sensors, file, last_alerts, outbox>>
       /\ UNCHANGED <<registry, jobs, relay, now>>

\* set_relay(on=False) came back, True or False after any failure; what it returned
\* is not looked at
PollRelayOffDone(sid, success) ==
    LET key == <<"poll", sid>>
        t == tasks[key]
    IN /\ t.pc = "relay_off"
       /\ IF t.result = "success"
          THEN PollEnds(sid, "poll_done",
                        _update_sensor_status(sensors[sid], SLEEPING, NULL, NULL), now,
                        t.result, NoTelemetry)
          ELSE /\ tasks' = [tasks EXCEPT ![key].pc = "enhance"]
               /\ ev' = [Ev("poll_relay_off_done", sid) EXCEPT !.final = FALSE]
               /\ UNCHANGED <<sensors, file, last_alerts, outbox>>
       /\ UNCHANGED <<registry, jobs, relay, now>>

\* get_status of the linked voltage meter came back
PollEnhanceDone(sid, vm_status) ==
    LET key == <<"poll", sid>>
        t == tasks[key]
        error_type == _enhance_error_with_voltage_meter_status(t.result, vm_status, t.power_mode)
    IN /\ t.pc = "enhance"
       /\ vm_status # NoTelemetry => sensors[t.vm].ip_address # NoIp
       /\ PollEnds(sid, "poll_done",
                   ClassifyPollError(sensors[sid], error_type, PowerSavingBranch(t)),
                   sensors[sid].last_active, t.result, vm_status)
       /\ UNCHANGED <<registry, jobs, relay, now>>

----------------------------------------------------------------------------
(* trigger_fetch_now *)

FetchNowStart(sid) ==
    LET key == <<"fetch_now", sid>>
    IN /\ sid \in registry
       /\ tasks[key].pc = "idle"
       /\ tasks' = [tasks EXCEPT ![key] =
             [Idle EXCEPT !.pc = "fetch",
                          !.power_mode = sensors[sid].power_mode,
                          !.vm = IF sensors[sid].sensor_type = PURPLE_AIR
                                 THEN _find_voltage_meter_for_sensor(sensors, registry, sid)
                                 ELSE NULL]]
       /\ ev' = [Ev("fetch_now_start", sid) EXCEPT !.final = FALSE, !.fetch = TRUE]
       /\ UNCHANGED <<sensors, registry, file, jobs, relay, last_alerts, outbox, now>>

\* The assignments trigger_fetch_now makes for a failed fetch
FetchNowError(s, error_type) ==
    IF error_type = "sleeping"
    THEN [s EXCEPT !.status = SLEEPING, !.status_reason = NULL, !.last_error = NULL]
    ELSE [s EXCEPT !.status = IF error_type = "battery_low" THEN OFFLINE ELSE ERROR,
                   !.status_reason = error_type,
                   !.last_error = error_message[error_type]]

FetchNowEnds(sid, sensor, outcome, vm_status) ==
    LET key == <<"fetch_now", sid>>
        updated == [sensors EXCEPT ![sid] = sensor]
    IN /\ tasks' = Finish(key)
       /\ sensors' = Collect(updated, registry, tasks')
       /\ file' = _save_to_file(updated, registry)
       /\ ev' = [Ev("fetch_now_done", sid) EXCEPT !.outcome = outcome, !.telemetry = vm_status,
                                                 !.power_mode = tasks[key].power_mode]

FetchNowFetchDone(sid, outcome) ==
    LET key == <<"fetch_now", sid>>
        t == tasks[key]
        s == sensors[sid]
    IN /\ t.pc = "fetch"
       /\ IdType[sid] = VOLTAGE_METER => outcome # "timeout"
       /\ IF outcome = "raise"
          THEN \* nothing catches it: the request fails and nothing is saved
               /\ tasks' = Finish(key)
               /\ sensors' = Collect(sensors, registry, tasks')
               /\ ev' = [Ev("fetch_now_raised", sid) EXCEPT !.ok = FALSE, !.outcome = outcome]
               /\ UNCHANGED file
          ELSE IF outcome = "success"
          THEN FetchNowEnds(sid, [s EXCEPT !.status = ACTIVE, !.status_reason = NULL,
                                           !.last_active = now, !.last_error = NULL],
                            outcome, NoTelemetry)
          ELSE IF t.vm # NULL
          THEN /\ tasks' = [tasks EXCEPT ![key].pc = "enhance", ![key].result = outcome]
               /\ ev' = [Ev("fetch_now_fetch_done", sid) EXCEPT !.final = FALSE,
                                                               !.outcome = outcome]
               /\ UNCHANGED <<sensors, file>>
          ELSE FetchNowEnds(sid, FetchNowError(s, outcome), outcome, NoTelemetry)
       /\ UNCHANGED <<registry, jobs, relay, last_alerts, outbox, now>>

FetchNowEnhanceDone(sid, vm_status) ==
    LET key == <<"fetch_now", sid>>
        t == tasks[key]
        error_type == _enhance_error_with_voltage_meter_status(t.result, vm_status, t.power_mode)
    IN /\ t.pc = "enhance"
       /\ vm_status # NoTelemetry => sensors[t.vm].ip_address # NoIp
       /\ FetchNowEnds(sid, FetchNowError(sensors[sid], error_type), t.result, vm_status)
       /\ UNCHANGED <<registry, jobs, relay, last_alerts, outbox, now>>

----------------------------------------------------------------------------
(* POST /{id}/power-mode, then set_power_mode_async *)

\* an end of set_power_mode_async that restarts the polling job of a registered
\* sensor whether it is switched on or not
ModeEndsRestarting(sid, hs, saved, old_mode, vm, cmd) ==
    LET key == <<"mode", sid>>
        s == hs[sid]
    IN /\ tasks' = Finish(key)
       /\ sensors' = Collect(hs, registry, tasks')
       /\ IF sid \notin registry
          THEN /\ jobs' = _stop_polling_job(jobs, sid)
               /\ file' = saved
               /\ ev' = [Ev("set_power_mode_raised", sid) EXCEPT !.ok = FALSE]
          ELSE /\ jobs' = _start_polling_job(_stop_polling_job(jobs, sid), s, sid, NoFrequency)
               /\ file' = _save_to_file(hs, registry)
               /\ ev' = [Ev("set_power_mode_done", sid) EXCEPT
                            !.power_mode = s.power_mode, !.old_mode = old_mode,
                            !.vm = vm, !.cmd = cmd]

\* The end of set_power_mode_async: the polling job is restarted if the sensor dict
\* says it is active, then the registry is saved. _start_polling_job looks the sensor
\* up by id: for a sensor deleted meanwhile the lookup finds nothing and the call
\* raises after the jobs were stopped, before the save.
ModeEnds(sid, hs, saved, old_mode, vm, cmd) ==
    LET key == <<"mode", sid>>
        s == hs[sid]
    IN /\ tasks' = Finish(key)
       /\ sensors' = Collect(hs, registry, tasks')
       /\ IF s.is_active /\ sid \notin registry
          THEN /\ jobs' = _stop_polling_job(jobs, sid)
               /\ file' = saved
               /\ ev' = [Ev("set_power_mode_raised", sid) EXCEPT !.ok = FALSE]
          ELSE /\ jobs' = IF s.is_active
                          THEN _start_polling_job(_stop_polling_job(jobs, sid), s, sid, NoFrequency)
                          ELSE jobs
               /\ file' = _save_to_file(hs, registry)
               /\ ev' = [Ev("set_power_mode_done", sid) EXCEPT
                            !.power_mode = s.power_mode, !.old_mode = old_mode,
                            !.vm = vm, !.cmd = cmd]

ModeStart(sid, power_mode) ==
    LET key == <<"mode", sid>>
        s == sensors[sid]
        vm == _find_voltage_meter_for_sensor(sensors, registry, sid)
        status == IF ~s.is_active THEN s.status
                  ELSE IF power_mode = POWER_SAVING THEN SLEEPING ELSE ACTIVE
        hs == [sensors EXCEPT ![sid].power_mode = power_mode, ![sid].status = status]
    IN /\ sid \in registry
       /\ tasks[key].pc = "idle"
       /\ s.sensor_type = PURPLE_AIR
       /\ power_mode = POWER_SAVING => vm # NULL
       /\ IF power_mode # POWER_SAVING /\ vm # NULL /\ sensors[vm].ip_address # NoIp
          THEN \* set_auto_mode(vm_ip, auto=True) is sent and awaited
               /\ sensors' = hs
               /\ tasks' = [tasks EXCEPT ![key] =
                     [Idle EXCEPT !.pc = "auto", !.vm = vm, !.power_mode = s.power_mode]]
               /\ relay' = [relay EXCEPT ![vm] = "auto"]
               /\ ev' = [Ev("set_power_mode_start", sid) EXCEPT !.final = FALSE,
                                !.cmd = <<vm, "auto">>, !.power_mode = s.power_mode]
               /\ UNCHANGED <<jobs, file>>
          ELSE /\ ModeEnds(sid, hs, file, s.power_mode, vm, NoCmd)
               /\ UNCHANGED relay
       /\ UNCHANGED <<registry, last_alerts, outbox, now>>

\* set_auto_mode, the pause and get_status came back; a status read is saved at once
ModeAutoDone(sid, got_status) ==
    LET key == <<"mode", sid>>
    IN /\ tasks[key].pc = "auto"
       /\ ModeEnds(sid, sensors,
                   IF got_status THEN _save_to_file(sensors, registry) ELSE file,
                   tasks[key].power_mode, tasks[key].vm, <<tasks[key].vm, "auto">>)
       /\ UNCHANGED <<registry, relay, last_alerts, outbox, now>>

----------------------------------------------------------------------------
(* The program *)

\* The status sets and the expected pairs of _update_sensor_status, as statuses
Healthy == {ACTIVE, SLEEPING, WAKING}
Faulted == {ERROR, OFFLINE, INACTIVE}

ExpectedPair(old, new) ==
    <<old, new>> \in {<<SLEEPING, INACTIVE>>, <<WAKING, INACTIVE>>, <<INACTIVE, SLEEPING>>}

\* The history a step leaves: a fault alert for a sensor closes its recovery, a move
\* of its status from faulted to healthy other than along an expected pair opens one.
Track ==
    recovered' = [sid \in Ids |->
        IF \E i \in (Len(outbox) + 1)..Len(outbox') :
               outbox'[i].kind = "fault" /\ outbox'[i].sid = sid
        THEN FALSE
        ELSE IF /\ IsSensor(sensors[sid])
                /\ IsSensor(sensors'[sid])
                /\ sensors[sid].status \in Faulted
                /\ sensors'[sid].status \in Healthy
                /\ ~ExpectedPair(sensors[sid].status, sensors'[sid].status)
        THEN TRUE
        ELSE recovered[sid]]

\* A request to the control surface
Request(sid) ==
    \/ \E ip \in {IP, NoIp}, linked \in {NULL, "p1"} : Register(sid, ip, linked)
    \/ turn_on_sensor(sid)
    \/ turn_off_sensor(sid)
    \/ delete_sensor(sid)
    \/ \E minutes \in FrequencyInputs : set_polling_frequency(sid, minutes)
    \/ \E req \in UpdateRequests : update_sensor(sid, req)
    \/ FetchNowStart(sid)
    \/ \E power_mode \in {NORMAL, POWER_SAVING} : ModeStart(sid, power_mode)

\* A job fires
Firing(sid) ==
    \/ Submit("prewake", sid)
    \/ Submit("poll", sid)

\* A coroutine starts or resumes, with what the adapter or the device answered
Resume(sid, outcomes, telemetries) ==
    \/ PreWakeStart(sid)
    \/ \E success \in BOOLEAN : PreWakeRelayDone(sid, success)
    \/ PollStart(sid)
    \/ \E outcome \in outcomes : PollFetchDone(sid, outcome)
    \/ \E success \in BOOLEAN : PollRelayOffDone(sid, success)
    \/ \E vm_status \in telemetries : PollEnhanceDone(sid, vm_status)
    \/ \E outcome \in outcomes : FetchNowFetchDone(sid, outcome)
    \/ \E vm_status \in telemetries : FetchNowEnhanceDone(sid, vm_status)
    \/ \E got_status \in BOOLEAN : ModeAutoDone(sid, got_status)

\* The steps of a run with at most max_ops requests, max_ticks job firings and
\* max_steps of both
Run(ids, max_ops, max_ticks, max_steps, outcomes, telemetries) ==
    \/ /\ used.ops < max_ops
       /\ used.ops + used.ticks < max_steps
       /\ used' = [used EXCEPT !.ops = @ + 1]
       /\ \/ \E sid \in ids : Request(sid)
          \/ Restart
       /\ Track
       /\ UNCHANGED push
    \/ /\ used.ticks < max_ticks
       /\ used.ops + used.ticks < max_steps
       /\ used' = [used EXCEPT !.ticks = @ + 1]
       /\ \E sid \in ids : Firing(sid)
       /\ Track
       /\ UNCHANGED push
    \/ /\ UNCHANGED used
       /\ \E sid \in ids : Resume(sid, outcomes, telemetries)
       /\ Track
       /\ UNCHANGED push

\* The orchestrator with a Purple Air sensor and a voltage meter: every request, the
\* fetches succeeding or timing out.
Next ==
    Run({"p1", "v1"}, MaxOps, MaxTicks, MaxOps + 1,
        {"success", "timeout"}, {NoTelemetry})

Spec == Init /\ [][Next]_vars

\* The Purple Air sensor started on a store that may have it switched on, its polls
\* over every answer of the voltage meter and every fetch outcome but the refused
\* connection, which its poll and its fetch-now handle as they handle the timeout.
NextPoll ==
    Run({"p1"}, MaxPollSteps, MaxPollSteps, MaxPollSteps,
        FetchOutcomes \ {"connection_error"}, Telemetries)

SpecPoll == InitPoll /\ [][NextPoll]_vars

\* Stores holding one sensor of each type switched on and no voltage meter linked
\* to the Purple Air sensor, which is in either power mode (a linked voltage meter
\* deleted after the switch to power saving leaves it so).
SoloStores ==
    LET on(sid) == [NewSensor(sid, IP, NULL) EXCEPT !.is_active = TRUE, !.status = ACTIVE]
        p1(mode) == [on("p1") EXCEPT
                        !.power_mode = mode,
                        !.status = IF mode = POWER_SAVING THEN SLEEPING ELSE ACTIVE]
    IN {_save_to_file([sid \in Ids |-> IF sid = "p1" THEN p1(mode) ELSE on(sid)], Ids) :
           mode \in {NORMAL, POWER_SAVING}}

InitSolo == Boot(SoloStores)

\* The sensors of every type without a relay device: switched off and on, fetched
\* on request and by their jobs, over every fetch outcome.
NextSolo ==
    \/ /\ used.ops + used.ticks < MaxSoloSteps
       /\ used' = [used EXCEPT !.ops = @ + 1]
       /\ \E sid \in Ids : turn_on_sensor(sid) \/ turn_off_sensor(sid) \/ FetchNowStart(sid)
       /\ Track
       /\ UNCHANGED push
    \/ /\ used.ops + used.ticks < MaxSoloSteps
       /\ used' = [used EXCEPT !.ticks = @ + 1]
       /\ \E sid \in Ids : Firing(sid)
       /\ Track
       /\ UNCHANGED push
    \/ /\ UNCHANGED used
       /\ \E sid \in Ids :
             \/ PreWakeStart(sid)
             \/ PollStart(sid)
             \/ \E outcome \in FetchOutcomes :
                   PollFetchDone(sid, outcome) \/ FetchNowFetchDone(sid, outcome)
       /\ Track
       /\ UNCHANGED push

SpecSolo == InitSolo /\ [][NextSolo]_vars

\* The clock moves on by half the alert cooldown.
ClockStep == alert_cooldown_seconds \div 2

Advance ==
    /\ now < MaxAdvances * ClockStep
    /\ now' = now + ClockStep
    /\ ev' = Ev("advance", NULL)
    /\ UNCHANGED <<sensors, registry, file, jobs, tasks, relay, last_alerts, outbox,
                   recovered, used, push>>

InitAlert == Boot(ActiveStores)

\* The Purple Air sensor switched on, in either power mode, while time passes: its
\* pre-wakes and polls over every fetch outcome and every answer of the voltage meter.
NextAlert ==
    \/ Advance
    \/ /\ used.ticks < MaxAlertFirings
       /\ used' = [used EXCEPT !.ticks = @ + 1]
       /\ Firing("p1")
       /\ Track
       /\ UNCHANGED push
    \/ /\ UNCHANGED used
       /\ \/ PreWakeStart("p1")
          \/ \E success \in BOOLEAN : PreWakeRelayDone("p1", success)
          \/ PollStart("p1")
          \/ \E outcome \in FetchOutcomes : PollFetchDone("p1", outcome)
          \/ \E success \in BOOLEAN : PollRelayOffDone("p1", success)
          \/ \E vm_status \in Telemetries : PollEnhanceDone("p1", vm_status)
       /\ Track
       /\ UNCHANGED push

SpecAlert == InitAlert /\ [][NextAlert]_vars

\* The records a store written by another hand may hold for an id: none, a sensor
\* switched off, a sensor switched on and in ERROR, and records the load cannot
\* convert: an unknown type, an unknown status, no status key, a timestamp that is
\* no ISO date.
DamagedRecords(sid) ==
    LET off == Serialize(NewSensor(sid, IP, NULL))
        on == Serialize([NewSensor(sid, IP, NULL) EXCEPT
                            !.is_active = TRUE, !.status = ERROR,
                            !.status_reason = "cloud_error",
                            !.last_error = error_message["cloud_error"]])
    IN {NoRecord, off, on,
        [on EXCEPT !.sensor_type = "barometer"],
        [on EXCEPT !.status = "rebooting"],
        [on EXCEPT !.status = NoKey],
        [on EXCEPT !.last_active = <<"yesterday">>]}

DamagedStores == {f \in [Ids -> UNION {DamagedRecords(sid) : sid \in Ids}] :
                     \A sid \in Ids : f[sid] \in DamagedRecords(sid)}

InitLoad == Boot(DamagedStores)

\* The process started on such a store, restarted, its sensors switched on and off.
NextLoad ==
    \/ /\ used.ops < MaxLoadSteps
       /\ used' = [used EXCEPT !.ops = @ + 1]
       /\ Restart
       /\ Track
       /\ UNCHANGED push
    \/ /\ used.ops < MaxLoadSteps
       /\ used' = [used EXCEPT !.ops = @ + 1]
       /\ \E sid \in Ids : turn_on_sensor(sid) \/ turn_off_sensor(sid)
       /\ Track
       /\ UNCHANGED push

SpecLoad == InitLoad /\ [][NextLoad]_vars

\* The voltage meter's fetch_and_push called again and again, over every answer of
\* the device and of the upload server. A call that awaits is resumed: each await
\* is an HTTP request of a client with a timeout, or a sleep.
NextPush ==
    \/ fetch_and_push /\ UNCHANGED <<sensors, registry, file, jobs, tasks, relay, last_alerts,
                                     outbox, recovered, now, used, ev>>
    \/ /\ \E reading \in BOOLEAN : GetStatusDone(reading)
       /\ UNCHANGED <<sensors, registry, file, jobs, tasks, relay, last_alerts,
                      outbox, recovered, now, used, ev>>
    \/ /\ \E response \in Responses : PostDone(response)
       /\ UNCHANGED <<sensors, registry, file, jobs, tasks, relay, last_alerts,
                      outbox, recovered, now, used, ev>>
    \/ RetrySleepDone /\ UNCHANGED <<sensors, registry, file, jobs, tasks, relay, last_alerts,
                                     outbox, recovered, now, used, ev>>

SpecPush == Init /\ [][NextPush]_vars /\ WF_vars(NextPush)

\* The minutes POST /{id}/frequency accepts
max_minutes == 1440

FrequencyRange == {m \in 1..MaxMinutes : m <= max_minutes} \cup ((max_minutes - 2)..max_minutes)

\* The three sensors, switched on, their frequency set over the range and the
\* sensors switched off and on between.
NextFreq ==
    \/ /\ used.ops < MaxFreqSteps
       /\ used' = [used EXCEPT !.ops = @ + 1]
       /\ \E sid \in Ids, minutes \in FrequencyRange : set_polling_frequency(sid, minutes)
       /\ Track
       /\ UNCHANGED push
    \/ /\ used.ops < MaxFreqSteps
       /\ used' = [used EXCEPT !.ops = @ + 1]
       /\ \E sid \in Ids : turn_on_sensor(sid) \/ turn_off_sensor(sid)
       /\ Track
       /\ UNCHANGED push

SpecFreq == InitSolo /\ [][NextFreq]_vars

\* A request that takes the sensor away from its relay device: the sensor switched
\* off or deleted, the voltage meter unlinked.
RelayRequest ==
    /\ used.ops < MaxRelayOps
    /\ used' = [used EXCEPT !.ops = @ + 1]
    /\ \/ turn_off_sensor("p1")
       \/ delete_sensor("p1")
       \/ update_sensor("v1", [field |-> "linked_sensor_id", value |-> NULL])
    /\ Track
    /\ UNCHANGED push

\* A job of the Purple Air sensor comes due
RelayFiring ==
    /\ Firing("p1")
    /\ UNCHANGED used
    /\ Track
    /\ UNCHANGED push

\* A callback of the Purple Air sensor starts or is resumed
RelayResume ==
    /\ \/ PreWakeStart("p1")
       \/ \E success \in BOOLEAN : PreWakeRelayDone("p1", success)
       \/ PollStart("p1")
       \/ \E outcome \in {"success", "cloud_error", "raise"} : PollFetchDone("p1", outcome)
       \/ \E success \in BOOLEAN : PollRelayOffDone("p1", success)
       \/ PollEnhanceDone("p1", NoTelemetry)
    /\ UNCHANGED used
    /\ Track
    /\ UNCHANGED push

NextRelay == RelayRequest \/ RelayFiring \/ RelayResume

\* The Purple Air sensor switched on with its voltage meter while the clock stands
\* still. The scheduler fires a job that stays due and the event loop resumes a
\* coroutine that can go on; nothing makes a request come.
SpecRelay ==
    InitAlert /\ [][NextRelay]_vars /\ WF_vars(RelayFiring) /\ WF_vars(RelayResume)

----------------------------------------------------------------------------
(* Timers *)

\* A Purple Air sensor in power-saving mode
PowerSavingSensor(s) == s.sensor_type = PURPLE_AIR /\ s.power_mode = POWER_SAVING

Registered(sid) == sid \in registry

\* C1: the scheduler never holds more than one poll job nor more than one pre-wake
\* job of a sensor, and right after set_polling_frequency or set_power_mode_async on
\* an active sensor it holds exactly one poll job of it, and exactly one pre-wake
\* job when the sensor is a Purple Air sensor in power-saving mode.
C1_OneJobOfEachKind ==
    \A sid \in Ids :
        /\ JobCount(jobs, PollJobId(sid)) <= 1
        /\ JobCount(jobs, PrewakeJobId(sid)) <= 1
        /\ ( /\ ev.op \in {"set_polling_frequency", "set_power_mode_done"}
             /\ ev.sid = sid
             /\ Registered(sid)
             /\ sensors[sid].is_active )
           => /\ JobCount(jobs, PollJobId(sid)) = 1
              /\ PowerSavingSensor(sensors[sid]) => JobCount(jobs, PrewakeJobId(sid)) = 1

\* The frequency of an active power-saving sensor was changed: its two jobs run at
\* the new interval.
C1_Witness ==
    /\ ev.op = "set_polling_frequency"
    /\ Registered("p1")
    /\ sensors["p1"].is_active
    /\ PowerSavingSensor(sensors["p1"])
    /\ sensors["p1"].polling_frequency = 600
    /\ \A kind \in {"poll", "prewake"} :
          /\ JobCount(jobs, <<kind, "p1">>) = 1
          /\ \A j \in JobsWithId(jobs, <<kind, "p1">>) : j.interval = 600

\* C2: right after the process started, every loaded sensor with is_active set has its
\* poll job (and its pre-wake job if it is a Purple Air sensor in power-saving mode),
\* and a sensor loaded with is_active unset, or not loaded, has no job.
C2_StartRecreatesJobs ==
    ev.op \in {"init", "restart"} =>
        \A sid \in Ids :
            IF Registered(sid) /\ sensors[sid].is_active
            THEN /\ JobCount(jobs, PollJobId(sid)) = 1
                 /\ JobCount(jobs, PrewakeJobId(sid)) =
                       (IF PowerSavingSensor(sensors[sid]) THEN 1 ELSE 0)
            ELSE /\ JobCount(jobs, PollJobId(sid)) = 0
                 /\ JobCount(jobs, PrewakeJobId(sid)) = 0

\* The process restarted with an active power-saving sensor and an inactive sensor.
C2_Witness ==
    /\ ev.op = "restart"
    /\ Registered("p1") /\ Registered("v1")
    /\ sensors["p1"].is_active /\ PowerSavingSensor(sensors["p1"])
    /\ JobCount(jobs, PollJobId("p1")) = 1
    /\ JobCount(jobs, PrewakeJobId("p1")) = 1
    /\ ~sensors["v1"].is_active
    /\ JobCount(jobs, PollJobId("v1")) = 0

\* C3: delete_sensor of a sensor with jobs leaves the id out of the registry and no
\* job of it; a poll or pre-wake run that starts for an id the registry does not hold
\* ends at once: registry, sensors, store, jobs and relays stay as they were, and no
\* fetch and no relay command is started.
C3_DeleteThenNoOp ==
    [][\A sid \in Ids :
          /\ (ev'.op = "delete" /\ ev'.sid = sid /\ JobCount(jobs, PollJobId(sid)) > 0)
             => /\ ~(sid \in registry')
                /\ JobCount(jobs', PollJobId(sid)) = 0
                /\ JobCount(jobs', PrewakeJobId(sid)) = 0
          /\ (ev'.op \in {"poll_start", "prewake_start"} /\ ev'.sid = sid /\ ~Registered(sid))
             => /\ registry' = registry
                /\ \A x \in registry : sensors'[x] = sensors[x]
                /\ file' = file
                /\ jobs' = jobs
                /\ relay' = relay
                /\ ~ev'.fetch
                /\ ev'.cmd = NoCmd
                /\ ev'.final
      ]_vars

\* A poll run submitted before the delete has started after it and done nothing.
C3_Witness ==
    /\ ev.op = "poll_start"
    /\ ev.sid = "p1"
    /\ ~Registered("p1")
    /\ ~ev.ok
    /\ JobCount(jobs, PollJobId("p1")) = 0

\* C4: the pre-wake job of an active power-saving sensor has the interval of its
\* poll job and is due PRE_WAKE_TIME seconds before it.
C4_PreWakeBeforePoll ==
    \A sid \in Ids :
        ( /\ Registered(sid)
          /\ sensors[sid].is_active
          /\ PowerSavingSensor(sensors[sid])
          /\ JobCount(jobs, PollJobId(sid)) = 1
          /\ JobCount(jobs, PrewakeJobId(sid)) = 1 )
        => \A poll \in JobsWithId(jobs, PollJobId(sid)),
              prewake \in JobsWithId(jobs, PrewakeJobId(sid)) :
                /\ prewake.interval = poll.interval
                /\ prewake.next_run = poll.next_run - PRE_WAKE_TIME

LeftPowerSaving(sid) ==
    /\ ev.op = "set_power_mode_done"
    /\ ev.sid = sid
    /\ ev.old_mode = POWER_SAVING
    /\ ev.power_mode = NORMAL
    /\ ev.vm # NULL
    /\ Registered(sid)
    /\ sensors[sid].is_active

\* C8 as stated: after leaving power-saving mode the sensor has no pre-wake job, has
\* its poll job, and the auto-mode command was sent to the voltage meter.
C8_AutoModeIssued ==
    \A sid \in Ids :
        LeftPowerSaving(sid) =>
            /\ JobCount(jobs, PrewakeJobId(sid)) = 0
            /\ JobCount(jobs, PollJobId(sid)) = 1
            /\ ev.cmd = <<ev.vm, "auto">>

\* C8, amended: after leaving power-saving mode the sensor has no pre-wake job, has
\* its poll job, and the auto-mode command was sent to the voltage meter unless the
\* voltage meter has no address.
C8_AutoModeIssuedIfAddressed ==
    \A sid \in Ids :
        LeftPowerSaving(sid) =>
            /\ JobCount(jobs, PrewakeJobId(sid)) = 0
            /\ JobCount(jobs, PollJobId(sid)) = 1
            /\ \/ ev.cmd = <<ev.vm, "auto">>
               \/ Registered(ev.vm) /\ sensors[ev.vm].ip_address = NoIp

\* An active sensor left power-saving mode and its voltage meter was sent auto mode.
C8_Witness ==
    /\ LeftPowerSaving("p1")
    /\ ev.cmd = <<"v1", "auto">>
    /\ relay["v1"] = "auto"
    /\ JobCount(jobs, PrewakeJobId("p1")) = 0
    /\ JobCount(jobs, PollJobId("p1")) = 1

----------------------------------------------------------------------------
(* The duty cycle and the classification of failed fetches *)

\* C5: a poll of a sensor in power-saving mode with a voltage meter sends the
\* relay-OFF command when the fetch comes back, whatever it returned, before it
\* touches the sensor; it sends no other, so the poll ends having sent exactly one.
C5_OneRelayOffAfterFetch ==
    [][\A sid \in Ids :
          LET t == tasks[<<"poll", sid>>]
              t_after == tasks'[<<"poll", sid>>]
          IN (ev'.sid = sid /\ t.power_mode = POWER_SAVING /\ t.vm # NULL) =>
                /\ ev'.op = "poll_fetch_done" =>
                      /\ t.offs = 0
                      /\ t_after.offs = 1
                      /\ ev'.cmd = <<t.vm, "off">>
                      /\ relay'[t.vm] = "off"
                      /\ sensors'[sid] = sensors[sid]
                /\ ev'.op = "poll_relay_off_done" =>
                      /\ t_after.offs = 1
                      /\ ev'.cmd = NoCmd
                      /\ sensors'[sid] = sensors[sid]
                /\ ev'.op = "poll_done" =>
                      /\ t.offs = 1
                      /\ ev'.offs = 1
                      /\ ev'.cmd = NoCmd
      ]_vars

\* A power-saving poll whose fetch failed has ended, one relay-OFF sent.
C5_Witness ==
    /\ ev.op = "poll_done"
    /\ ev.sid = "p1"
    /\ ev.power_mode = POWER_SAVING
    /\ ev.outcome = "timeout"
    /\ ev.offs = 1
    /\ relay["v1"] = "off"

CallbackOps ==
    {"prewake_start", "prewake_done", "poll_start", "poll_fetch_done",
     "poll_relay_off_done", "poll_done", "poll_raised"}

\* C6: no step of a pre-wake or of a poll, failed or not, adds or removes a job, and
\* a poll that starts for a registered sensor starts the fetch whatever the pre-wake
\* left behind.
C6_CallbacksKeepJobs ==
    [][/\ ev'.op \in CallbackOps => jobs' = jobs
       /\ \A sid \in Ids :
             (ev'.op = "poll_start" /\ ev'.sid = sid /\ Registered(sid)) =>
                 /\ ev'.fetch
                 /\ tasks'[<<"poll", sid>>].pc = "fetch"
      ]_vars

\* The relay-ON of the pre-wake failed; the poll after it has started its fetch, and
\* both jobs are still there.
C6_Witness ==
    /\ ev.op = "poll_start"
    /\ ev.sid = "p1"
    /\ ev.fetch
    /\ Registered("p1")
    /\ sensors["p1"].status = ERROR
    /\ sensors["p1"].status_reason = "prewake_failed"
    /\ JobCount(jobs, PollJobId("p1")) = 1
    /\ JobCount(jobs, PrewakeJobId("p1")) = 1

\* A poll has ended whose fetch could not reach the sensor, the voltage meter
\* answering that the relay is off.
UnreachableRelayOff(sid) ==
    /\ ev.op = "poll_done"
    /\ ev.sid = sid
    /\ Registered(sid)
    /\ ev.outcome \in {"connection_error", "timeout"}
    /\ ev.telemetry # NoTelemetry
    /\ ~ev.telemetry.load_on

\* C9: after such a poll in power-saving mode with the voltage at or above the
\* cutoff, the sensor is SLEEPING, its last_error is null, and no fault alert was sent.
C9_SleepingNoError ==
    \A sid \in Ids :
        ( /\ UnreachableRelayOff(sid)
          /\ ev.power_mode = POWER_SAVING
          /\ ev.telemetry.voltage_v >= ev.telemetry.v_cutoff )
        => /\ sensors[sid].status = SLEEPING
           /\ sensors[sid].last_error = NULL
           /\ ~ev.fault

\* C10: after such a poll with the voltage below the cutoff, in either mode, the
\* sensor is OFFLINE with status_reason "battery_low".
C10_BatteryLow ==
    \A sid \in Ids :
        ( /\ UnreachableRelayOff(sid)
          /\ ev.telemetry.voltage_v < ev.telemetry.v_cutoff )
        => /\ sensors[sid].status = OFFLINE
           /\ sensors[sid].status_reason = "battery_low"

\* A poll in power-saving mode timed out with the relay off and the battery low.
C10_Witness ==
    /\ UnreachableRelayOff("p1")
    /\ ev.power_mode = POWER_SAVING
    /\ ev.outcome = "timeout"
    /\ ev.telemetry.voltage_v = 115
    /\ sensors["p1"].status = OFFLINE

\* A poll has ended whose fetch could not reach the sensor, the voltage meter
\* answering that the relay is on, or off with the battery at or above the cutoff.
UnreachableWithPower(sid) ==
    /\ ev.op = "poll_done"
    /\ ev.sid = sid
    /\ Registered(sid)
    /\ ev.outcome \in {"connection_error", "timeout"}
    /\ ev.telemetry # NoTelemetry
    /\ \/ ev.telemetry.load_on
       \/ /\ ev.telemetry.voltage_v >= ev.telemetry.v_cutoff
          /\ sensors[sid].power_mode # POWER_SAVING
          /\ ev.power_mode # POWER_SAVING

\* C11: after such a poll the sensor is in ERROR with status_reason "wifi_error".
C11_WifiError ==
    \A sid \in Ids :
        UnreachableWithPower(sid)
        => /\ sensors[sid].status = ERROR
           /\ sensors[sid].status_reason = "wifi_error"

----------------------------------------------------------------------------
(* Sensors without a relay device *)

\* A scheduled fetch of a sensor with no voltage meter linked has ended, the sensor
\* unreachable or timing out.
UnreachableAlone(sid) ==
    /\ ev.op = "poll_done"
    /\ ev.sid = sid
    /\ Registered(sid)
    /\ ev.outcome \in {"connection_error", "timeout"}
    /\ _find_voltage_meter_for_sensor(sensors, registry, sid) = NULL

----------------------------------------------------------------------------
(* Real errors and successful fetches *)

\* C13: after a scheduled fetch that failed with an upload or cloud error, the
\* sensor is in ERROR and its status_reason is the adapter's error kind, whatever
\* the power mode and whatever the voltage meter answered.
C13_RealError ==
    \A sid \in Ids :
        ( /\ ev.op = "poll_done"
          /\ ev.sid = sid
          /\ Registered(sid)
          /\ ev.outcome = "cloud_error" )
        => /\ sensors[sid].status = ERROR
           /\ sensors[sid].status_reason = "cloud_error"

\* A scheduled fetch has ended in success, the power mode being what it was when
\* the poll began.
FetchSucceeded(sid) ==
    /\ ev.op = "poll_done"
    /\ ev.sid = sid
    /\ Registered(sid)
    /\ ev.outcome = "success"
    /\ ev.power_mode = sensors[sid].power_mode

\* C14: after a successful scheduled fetch the sensor is ACTIVE in normal mode and
\* SLEEPING in power-saving mode, last_active is the time of the fetch and
\* last_error is null.
C14_AfterSuccess ==
    \A sid \in Ids :
        FetchSucceeded(sid)
        => /\ sensors[sid].power_mode = NORMAL => sensors[sid].status = ACTIVE
           /\ sensors[sid].power_mode = POWER_SAVING => sensors[sid].status = SLEEPING
           /\ sensors[sid].last_active = now
           /\ sensors[sid].last_error = NULL

----------------------------------------------------------------------------
(* Alerts *)

\* The e-mails of one kind sent for a sensor before the last one in the outbox
Earlier(kind, sid) ==
    {i \in 1..(Len(outbox) - 1) : outbox[i].kind = kind /\ outbox[i].sid = sid}

\* The step just taken sent a fault alert for the sensor.
FaultAlertSent(sid) == ev.fault /\ ev.sid = sid

FaultAlerts(sid) == {i \in 1..Len(outbox) : outbox[i].kind = "fault" /\ outbox[i].sid = sid}

RecoveryAlerts(sid) ==
    {i \in 1..Len(outbox) : outbox[i].kind = "recovery" /\ outbox[i].sid = sid}

C17_ExpectedPairsSilent ==
    [][\A sid \in Ids :
          ( /\ IsSensor(sensors[sid])
            /\ IsSensor(sensors'[sid])
            /\ ExpectedPair(sensors[sid].status, sensors'[sid].status) )
          => \A i \in (Len(outbox) + 1)..Len(outbox') : outbox'[i].sid # sid]_vars

\* A poll found the sensor SLEEPING and left it INACTIVE while no cooldown was
\* running, and sent nothing.
C17_Witness ==
    /\ ev.op = "poll_done"
    /\ ev.sid = "p1"
    /\ ev.old_status = SLEEPING
    /\ sensors["p1"].status = INACTIVE
    /\ sensors["p1"].last_error # NULL
    /\ last_alerts[FaultKey("p1")] = NoTime
    /\ outbox = <<>>

\* C18: a step that moves a sensor's status from a faulted status to a healthy one,
\* other than along an expected pair, sends a recovery alert for it unless the
\* recovery cooldown is running, whichever operation or callback takes the step.
C18_RecoveryAlways ==
    [][\A sid \in Ids :
          ( /\ IsSensor(sensors[sid])
            /\ IsSensor(sensors'[sid])
            /\ sensors[sid].status \in Faulted
            /\ sensors'[sid].status \in Healthy
            /\ ~ExpectedPair(sensors[sid].status, sensors'[sid].status) )
          => \/ ~_can_send_alert(last_alerts, RecoveryKey(sid))
             \/ \E i \in (Len(outbox) + 1)..Len(outbox') :
                   outbox'[i].kind = "recovery" /\ outbox'[i].sid = sid]_vars

\* C19: once a sensor has recovered, the poll that next moves it from a healthy
\* status to a faulted one, other than along an expected pair, sends a fault alert,
\* however long ago the previous fault alert was sent.
C19_FaultAfterRecoveryAlerts ==
    [][\A sid \in Ids :
          ( /\ recovered[sid]
            /\ ev'.op \in {"poll_done", "poll_raised"}
            /\ ev'.sid = sid
            /\ IsSensor(sensors'[sid])
            /\ sensors[sid].status \in Healthy
            /\ sensors'[sid].status \in Faulted
            /\ ~ExpectedPair(sensors[sid].status, sensors'[sid].status) )
          => ev'.fault]_vars

----------------------------------------------------------------------------
(* The status fields *)

\* C20: in every state, a registered sensor whose status_reason is not null has a
\* status other than ACTIVE, SLEEPING and WAKING.
C20_ReasonOnlyWhenUnhealthy ==
    \A sid \in Ids :
        (Registered(sid) /\ sensors[sid].status_reason # NULL)
        => sensors[sid].status \notin Healthy

\* What a scheduled poll that has ended classified its outcome as: the status, the
\* reason and the error text it handed to _update_sensor_status. The poll took the
\* power-saving branch when it sent a relay-OFF command.
Classification ==
    LET ps_branch == ev.offs = 1
        error_type == _enhance_error_with_voltage_meter_status(ev.outcome, ev.telemetry,
                                                               ev.power_mode)
    IN IF ev.op = "poll_raised"
       THEN [status |-> ERROR, status_reason |-> "poll_error",
             last_error |-> error_message["poll_error"]]
       ELSE IF ev.outcome = "success"
       THEN [status |-> IF ps_branch THEN SLEEPING ELSE ACTIVE,
             status_reason |-> NULL, last_error |-> NULL]
       ELSE IF ps_branch /\ error_type = "sleeping"
       THEN [status |-> SLEEPING, status_reason |-> NULL, last_error |-> NULL]
       ELSE [status |-> IF error_type = "battery_low" THEN OFFLINE
                        ELSE IF error_type \in {"connection_error", "timeout"} THEN INACTIVE
                        ELSE ERROR,
             status_reason |-> error_type,
             last_error |-> error_message[error_type]]

\* C21: after a scheduled poll has ended, the sensor's status, status_reason and
\* last_error are those of the poll's classification, also when the status is the
\* one the poll found.
C21_FieldsFollowClassification ==
    \A sid \in Ids :
        (ev.op \in {"poll_done", "poll_raised"} /\ ev.sid = sid /\ Registered(sid))
        => /\ sensors[sid].status = Classification.status
           /\ sensors[sid].status_reason = Classification.status_reason
           /\ sensors[sid].last_error = Classification.last_error

----------------------------------------------------------------------------
(* Manual fetch *)

\* The sensor dict a scheduled poll would leave, had it held the locals t and ended
\* on the sensor dict s with this fetch outcome and this answer of the voltage meter.
PollWouldLeave(s, t, outcome, vm_status) ==
    LET error_type == _enhance_error_with_voltage_meter_status(outcome, vm_status, t.power_mode)
    IN IF outcome = "success"
       THEN [_update_sensor_status(s, IF PowerSavingBranch(t) THEN SLEEPING ELSE ACTIVE,
                                   NULL, NULL).sensor EXCEPT !.last_active = now]
       ELSE ClassifyPollError(s, error_type, PowerSavingBranch(t)).sensor

\* C22: a manual fetch that ends leaves the sensor's status, status_reason,
\* last_error and last_active as a scheduled poll of the same sensor with the same
\* fetch outcome and the same answer of the voltage meter would leave them.
C22_FetchNowAsPoll ==
    [][\A sid \in Ids :
          (ev'.op = "fetch_now_done" /\ ev'.sid = sid /\ Registered(sid)) =>
              LET poll == PollWouldLeave(sensors[sid], tasks[<<"fetch_now", sid>>],
                                         ev'.outcome, ev'.telemetry)
              IN /\ sensors'[sid].status = poll.status
                 /\ sensors'[sid].status_reason = poll.status_reason
                 /\ sensors'[sid].last_error = poll.last_error
                 /\ sensors'[sid].last_active = poll.last_active
      ]_vars

----------------------------------------------------------------------------
(* Failures inside the callbacks *)

\* C23: when the fetch of a scheduled poll raises, the run ends all the same: the
\* sensor, if still registered, is in ERROR, the store holds the registry as it is
\* then, and no job of this or of any other sensor is added or removed.
C23_RaiseIsContained ==
    [][\A sid \in Ids :
          (ev'.op = "poll_raised" /\ ev'.sid = sid) =>
              /\ ev'.final
              /\ tasks'[<<"poll", sid>>] = Idle
              /\ Registered(sid) => sensors'[sid].status = ERROR
              /\ registry' = registry
              /\ file' = _save_to_file(sensors', registry')
              /\ jobs' = jobs
      ]_vars

\* The fetch of the Tempest station raised: the station went from ACTIVE to ERROR,
\* the store says so, and the poll jobs of all three sensors are still there.
C23_Witness ==
    /\ ev.op = "poll_raised"
    /\ ev.sid = "t1"
    /\ ev.old_status = ACTIVE
    /\ sensors["t1"].status = ERROR
    /\ sensors["t1"].status_reason = "poll_error"
    /\ file["t1"].status = "error"
    /\ \A sid \in Ids : JobCount(jobs, PollJobId(sid)) = 1

\* C24 as stated: a pre-wake whose relay-ON came back, failed or not, leaves the
\* sensor's status and status_reason as they were (WAKING since the tick).
C24_RelayFailureOnlyLogged ==
    [][\A sid \in Ids :
          (ev'.op = "prewake_done" /\ ev'.sid = sid /\ Registered(sid)) =>
              /\ sensors'[sid].status = sensors[sid].status
              /\ sensors'[sid].status_reason = sensors[sid].status_reason
      ]_vars

\* C24, amended: a relay-OFF of a poll that came back, failed or not, leaves the
\* sensor as the poll leaves it after a relay-OFF that succeeded; a relay-ON of a
\* pre-wake that came back leaves the sensor as it was if it succeeded, and in
\* ERROR with status_reason "prewake_failed" if it failed; neither adds or removes
\* a job.
C24_RelayOnFailureFaults ==
    [][\A sid \in Ids :
          LET t == tasks[<<"poll", sid>>]
          IN /\ (ev'.op = "prewake_done" /\ ev'.sid = sid /\ Registered(sid)) =>
                   /\ jobs' = jobs
                   /\ IF ev'.ok
                      THEN sensors'[sid] = sensors[sid]
                      ELSE /\ sensors'[sid].status = ERROR
                           /\ sensors'[sid].status_reason = "prewake_failed"
             /\ ( /\ t.pc = "relay_off"
                  /\ ev'.op \in {"poll_done", "poll_relay_off_done"}
                  /\ ev'.sid = sid
                  /\ Registered(sid) ) =>
                   /\ jobs' = jobs
                   /\ IF t.result = "success"
                      THEN sensors'[sid] = PollWouldLeave(sensors[sid], t, "success", NoTelemetry)
                      ELSE /\ sensors'[sid] = sensors[sid]
                           /\ tasks'[<<"poll", sid>>].pc = "enhance"
      ]_vars

\* The relay-ON of a pre-wake failed: the sensor, WAKING since the tick, is in
\* ERROR with status_reason "prewake_failed", and its two jobs are still there.
C24_Witness ==
    /\ ev.op = "prewake_done"
    /\ ev.sid = "p1"
    /\ ~ev.ok
    /\ sensors["p1"].status = ERROR
    /\ sensors["p1"].status_reason = "prewake_failed"
    /\ JobCount(jobs, PollJobId("p1")) = 1
    /\ JobCount(jobs, PrewakeJobId("p1")) = 1

----------------------------------------------------------------------------
(* The polling frequency *)

\* C25: in every state, the poll job of a Purple Air sensor in power-saving mode
\* runs at an interval that is a multiple of five minutes and at least five minutes.
C25_PowerSavingInterval ==
    \A sid \in Ids :
        (Registered(sid) /\ PowerSavingSensor(sensors[sid]))
        => \A j \in JobsWithId(jobs, PollJobId(sid)) :
              /\ j.interval >= 5 * 60
              /\ j.interval % (5 * 60) = 0

\* The frequency of a sensor has just been set, the request asking for 7 minutes.
SevenMinutesSet(sid) ==
    /\ ev.op = "set_polling_frequency"
    /\ ev.sid = sid
    /\ ev.minutes = 7
    /\ Registered(sid)

\* C26 as stated: setting the polling frequency to 7 minutes stores an interval of
\* 10 minutes, 600 seconds.
C26_SevenStoresTen ==
    \A sid \in Ids : SevenMinutesSet(sid) => sensors[sid].polling_frequency = 10 * 60

\* C26, amended: setting the polling frequency to 7 minutes stores an interval of
\* 5 minutes, 300 seconds, the multiple of 5 minutes nearest to 7.
C26_SevenStoresFive ==
    \A sid \in Ids : SevenMinutesSet(sid) => sensors[sid].polling_frequency = 5 * 60

\* The frequency of the Purple Air sensor, switched on, was set to 7 minutes: 300
\* seconds are stored and its poll job runs every 300 seconds.
C26_Witness ==
    /\ SevenMinutesSet("p1")
    /\ sensors["p1"].is_active
    /\ sensors["p1"].polling_frequency = 300
    /\ file["p1"].polling_frequency = 300
    /\ \A j \in JobsWithId(jobs, PollJobId("p1")) : j.interval = 300
    /\ JobCount(jobs, PollJobId("p1")) = 1

----------------------------------------------------------------------------
(* The power mode *)

\* C27: no step takes a registered Purple Air sensor that has no voltage meter
\* linked to it from another power mode into power-saving mode (a request the
\* control surface rejects is no step: it changes nothing).
C27_PowerSavingNeedsRelay ==
    [][\A sid \in Ids :
          ( /\ Registered(sid)
            /\ sensors[sid].sensor_type = PURPLE_AIR
            /\ _find_voltage_meter_for_sensor(sensors, registry, sid) = NULL
            /\ sensors[sid].power_mode # POWER_SAVING
            /\ IsSensor(sensors'[sid]) )
          => sensors'[sid].power_mode # POWER_SAVING
      ]_vars

----------------------------------------------------------------------------
(* Persistence *)

\* C28: a process started on the store that the registry was last saved to holds
\* the same registry, with every field of every sensor as it was saved, and has no
\* coroutine running and no fetch started.
C28_SaveLoadRoundTrip ==
    [][(ev'.op = "restart" /\ file = _save_to_file(sensors, registry)) =>
          /\ registry' = registry
          /\ \A sid \in registry : sensors'[sid] = sensors[sid]
          /\ tasks' = [k \in TaskKeys |-> Idle]
          /\ ~ev'.fetch
          /\ file' = file
      ]_vars

\* The process has restarted on a store that holds the Purple Air sensor in ERROR
\* with its last_error and the time of its last success: it has them as stored.
C28_Witness ==
    /\ ev.op = "restart"
    /\ Registered("p1")
    /\ file["p1"].status = "error"
    /\ file["p1"].last_active # isoformat(NoTime)
    /\ sensors["p1"].status = ERROR
    /\ sensors["p1"].last_error # NULL
    /\ sensors["p1"].last_active # NoTime
    /\ file = _save_to_file(sensors, registry)
    /\ \A k \in TaskKeys : tasks[k] = Idle

\* A record of the store that can be parsed: its type and its status are known, the
\* status key is there, and its timestamp is null or an ISO date.
WellFormed(r) ==
    /\ r # NoRecord
    /\ r.sensor_type \in {PURPLE_AIR, TEMPEST, VOLTAGE_METER}
    /\ r.status \in {StatusValue[m] : m \in SensorStatus}
    /\ r.last_active = <<"null">> \/ r.last_active[1] = "iso"

----------------------------------------------------------------------------
(* Stopping the jobs *)

NoJobs(js, sid) ==
    JobCount(js, PollJobId(sid)) = 0 /\ JobCount(js, PrewakeJobId(sid)) = 0

\* C30: turn_off_sensor, and with it _stop_polling_job, succeeds whether the sensor
\* has jobs or not and leaves it without jobs, switched off and INACTIVE, the jobs
\* of the other sensors and the registry as they were; for a sensor that has no
\* jobs it leaves the scheduler as it was, and called right after a call for the
\* same sensor it changes nothing at all.
C30_StopIdempotent ==
    [][\A sid \in Ids :
          (ev'.op = "turn_off" /\ ev'.sid = sid) =>
              /\ ev'.ok
              /\ NoJobs(jobs', sid)
              /\ ~sensors'[sid].is_active
              /\ sensors'[sid].status = INACTIVE
              /\ registry' = registry
              /\ \A other \in Ids \ {sid} :
                    /\ JobCount(jobs', PollJobId(other)) = JobCount(jobs, PollJobId(other))
                    /\ JobCount(jobs', PrewakeJobId(other)) = JobCount(jobs, PrewakeJobId(other))
              /\ NoJobs(jobs, sid) => jobs' = jobs
              /\ (ev.op = "turn_off" /\ ev.sid = sid) =>
                    /\ jobs' = jobs
                    /\ sensors' = sensors
                    /\ file' = file
      ]_vars

\* turn_off_sensor has run for the power-saving Purple Air sensor, which was
\* switched off already and had no jobs: nothing of it has changed, and the jobs
\* of the other two sensors are still there.
C30_Witness ==
    /\ ev.op = "turn_off"
    /\ ev.sid = "p1"
    /\ ev.ok
    /\ ev.old_status = INACTIVE
    /\ PowerSavingSensor(sensors["p1"])
    /\ ~sensors["p1"].is_active
    /\ NoJobs(jobs, "p1")
    /\ file = _save_to_file(sensors, registry)
    /\ JobCount(jobs, PollJobId("t1")) = 1
    /\ JobCount(jobs, PollJobId("v1")) = 1

----------------------------------------------------------------------------
(* Switching off while callbacks run *)

\* The steps of the poll callback of a sensor
PollOps == {"poll_start", "poll_fetch_done", "poll_relay_off_done", "poll_done", "poll_raised"}

\* C31: turn_off_sensor leaves the sensor without jobs and every coroutine in flight
\* as it was; a sensor that is switched off and has no jobs stays so through every
\* step but its own turn_on_sensor, so that no poll or pre-wake job of it fires
\* before; and a poll in flight is moved on by its own steps alone (or ended with
\* the process), never by turn_off_sensor.
C31_TurnOffStopsTicks ==
    [][\A sid \in Ids :
          /\ (ev'.op = "turn_off" /\ ev'.sid = sid) =>
                NoJobs(jobs', sid) /\ tasks' = tasks
          /\ ( /\ Registered(sid)
               /\ ~sensors[sid].is_active
               /\ NoJobs(jobs, sid)
               /\ ~(ev'.op = "turn_on" /\ ev'.sid = sid)
               /\ sid \in registry' ) =>
                ~sensors'[sid].is_active /\ NoJobs(jobs', sid)
          /\ (ev'.op \in {"submit_poll", "submit_prewake"} /\ ev'.sid = sid) =>
                Registered(sid) /\ sensors[sid].is_active
          /\ ( /\ tasks[<<"poll", sid>>].pc # "idle"
               /\ tasks'[<<"poll", sid>>] # tasks[<<"poll", sid>>] ) =>
                \/ ev'.op \in PollOps /\ ev'.sid = sid
                \/ ev'.op = "restart"
      ]_vars

\* A poll of the Purple Air sensor that was fetching when the sensor was switched
\* off has run to its end: the sensor is still off and without jobs.
C31_Witness ==
    /\ ev.op = "poll_done"
    /\ ev.sid = "p1"
    /\ ev.old_status = INACTIVE
    /\ Registered("p1")
    /\ ~sensors["p1"].is_active
    /\ NoJobs(jobs, "p1")
    /\ tasks[<<"poll", "p1">>].pc = "idle"
    /\ used.ticks = MaxTicks

----------------------------------------------------------------------------
(* The voltage meter's fetch and upload *)

ErrorTypes == {"connection_error", "cloud_error", "http_error", "unknown_error"}

\* C32: fetch_and_push of the voltage meter never raises, and a call that is resumed
\* whenever it awaits returns: it sends at most max_retries POSTs, a second one only
\* after a 502, 503 or 504 and a sleep of retry_delay seconds, returns at once on
\* every other failure, and returns each failure as an outcome of status "error"
\* with an error_type.
C32_PushBoundedAndStructured ==
    /\ [](/\ push.pc # "raised"
          /\ push.posts <= max_retries
          /\ push.attempt = push.posts - (IF push.posts = 0 THEN 0 ELSE 1)
          /\ push.slept = retry_delay * push.attempt
          /\ push.pc = "sleep" => push.response \in {502, 503, 504} /\ push.attempt = 0
          /\ \A i \in 1..Len(push.returned) :
                LET r == push.returned[i]
                IN /\ r.status \in {"success", "error"}
                   /\ r.status = "success" <=> r.http_status = 200
                   /\ r.status = "error" => r.error_type \in ErrorTypes
                   /\ r.error_type = "cloud_error" <=> r.http_status \in {502, 503, 504})
    /\ [][ /\ (push.pc = "post" /\ push'.response \notin {502, 503, 504}) =>
                 /\ push'.pc = "idle"
                 /\ Len(push'.returned) = Len(push.returned) + 1
           /\ (push.pc = "post" /\ push.attempt = max_retries - 1) => push'.pc = "idle"
         ]_vars
    /\ (push.pc # "idle") ~> (push.pc = "idle")

\* The second call answered 503 and then 504: it has slept once, posted twice and
\* returned a cloud error, after a first call that succeeded at its second POST.
C32_Witness ==
    /\ push.pc = "idle"
    /\ push.calls = 2
    /\ push.posts = max_retries
    /\ push.slept = retry_delay
    /\ Len(push.returned) = 2
    /\ push.returned[1] = Outcome("success", NULL, 200)
    /\ push.returned[2] = Outcome("error", "cloud_error", 504)

----------------------------------------------------------------------------
(* The quantized frequency *)

Max(a, b) == IF a >= b THEN a ELSE b

\* k is a multiple of 5, at least 5 and at most 2 away from max(m, 5)
NearestStep(k, m) ==
    /\ k % 5 = 0
    /\ k >= 5
    /\ k - Max(m, 5) \in -2..2

\* C33: for every m of 1..1440 minutes the quantization gives the multiple of 5
\* nearest to max(m, 5); set_polling_frequency stores 60 times that many seconds,
\* and for a sensor that is switched on it leaves exactly one poll job, whose
\* interval is the stored value, and for one that is switched off the jobs as they were.
C33_NearestMultipleOfFive ==
    /\ [](ev.op = "init" =>
             \A m \in 1..max_minutes :
                validate_polling_frequency(m) /\ NearestStep(Quantize(m), m))
    /\ [][\A sid \in Ids :
             (ev'.op = "set_polling_frequency" /\ ev'.sid = sid) =>
                 LET stored == sensors'[sid].polling_frequency
                 IN /\ stored % 60 = 0
                    /\ NearestStep(stored \div 60, ev'.minutes)
                    /\ sensors'[sid].is_active = sensors[sid].is_active
                    /\ sensors'[sid].is_active =>
                          /\ JobCount(jobs', PollJobId(sid)) = 1
                          /\ \A j \in JobsWithId(jobs', PollJobId(sid)) : j.interval = stored
                    /\ ~sensors'[sid].is_active => jobs' = jobs
                    /\ file'[sid].polling_frequency = stored
         ]_vars

\* 8 minutes were asked for the Tempest sensor, which is switched on: 600 s are
\* stored and its poll job runs every 600 s.
C33_Witness ==
    /\ ev.op = "set_polling_frequency"
    /\ ev.sid = "t1"
    /\ ev.minutes = 8
    /\ sensors["t1"].is_active
    /\ sensors["t1"].polling_frequency = 600
    /\ \E j \in JobsWithId(jobs, PollJobId("t1")) : j.interval = 600

----------------------------------------------------------------------------
(* is_active and the jobs *)

\* C34: a registered sensor is switched on (is_active) exactly when the scheduler
\* holds a poll job of it, in every state, those where a power-mode change awaits
\* the relay device included; and a sensor that is not registered has no job.
C34_ActiveIffPollJob ==
    \A sid \in Ids :
        /\ Registered(sid) => (sensors[sid].is_active <=> JobCount(jobs, PollJobId(sid)) = 1)
        /\ ~Registered(sid) => NoJobs(jobs, sid)

\* The Purple Air sensor, switched on, was deleted while its change to normal mode
\* awaited the relay device: the change has ended, the sensor is gone and has no
\* job, and the voltage meter is registered still.
C34_Witness ==
    /\ ev.op = "set_power_mode_raised"
    /\ ev.sid = "p1"
    /\ ~Registered("p1")
    /\ Registered("v1")
    /\ relay["v1"] = "auto"
    /\ NoJobs(jobs, "p1")
    /\ tasks[<<"mode", "p1">>].pc = "idle"

\* C35: while no power-mode change of it is under way, a registered sensor has a
\* pre-wake job exactly when it is a Purple Air sensor that is switched on and whose
\* power_mode is power saving.
C35_PrewakeIffPowerSaving ==
    \A sid \in Ids :
        (Registered(sid) /\ tasks[<<"mode", sid>>].pc = "idle") =>
            (JobCount(jobs, PrewakeJobId(sid)) = 1
                <=> (sensors[sid].is_active /\ PowerSavingSensor(sensors[sid])))

----------------------------------------------------------------------------
(* A sensor switched off while its callbacks run *)

\* The steps of a power-mode request and of a manual fetch
ModeOps == {"set_power_mode_start", "set_power_mode_done", "set_power_mode_raised"}
FetchNowOps == {"fetch_now_start", "fetch_now_fetch_done", "fetch_now_done", "fetch_now_raised"}

\* C36: a registered sensor that is switched off and INACTIVE stays INACTIVE, and no
\* alert is sent, through every step that is not a step of turn_on_sensor, of a
\* power-mode request or of a manual fetch of that sensor: the steps of a poll or
\* pre-wake of it that was in flight when it was switched off among them.
C36_OffStaysInactive ==
    [][\A sid \in Ids :
          ( /\ Registered(sid)
            /\ ~sensors[sid].is_active
            /\ sensors[sid].status = INACTIVE
            /\ sid \in registry'
            /\ ~(ev'.sid = sid /\ ev'.op \in {"turn_on"} \cup ModeOps \cup FetchNowOps) ) =>
              /\ sensors'[sid].status = INACTIVE
              /\ \A i \in (Len(outbox) + 1)..Len(outbox') : outbox'[i].sid # sid
      ]_vars

----------------------------------------------------------------------------
(* A sensor deleted while its callbacks run *)

PrewakeOps == {"prewake_start", "prewake_done"}

\* C37: every step of a poll or pre-wake of a sensor that is no longer registered
\* leaves it unregistered, without a record in the store and without jobs, and
\* leaves the sensors that are registered so.
C37_DeletedStaysDeleted ==
    [][\A sid \in Ids :
          (~Registered(sid) /\ ev'.sid = sid /\ ev'.op \in PollOps \cup PrewakeOps) =>
              /\ registry' = registry
              /\ file'[sid] = NoRecord
              /\ NoJobs(jobs', sid)
              /\ jobs' = jobs
      ]_vars

\* The poll of the Purple Air sensor was fetching when the sensor was deleted, and
\* has ended with a status update: the sensor is in no registry, store or job.
C37_Witness ==
    /\ ev.op = "poll_done"
    /\ ev.sid = "p1"
    /\ ev.outcome = "success"
    /\ ~Registered("p1")
    /\ ~IsSensor(sensors["p1"])
    /\ file["p1"] = NoRecord
    /\ NoJobs(jobs, "p1")
    /\ file = _save_to_file(sensors, registry)

----------------------------------------------------------------------------
(* The relay after a switch to normal mode *)

\* C38: while the last command sent to a voltage meter is the auto-mode command and
\* the Purple Air sensor is registered and not in power-saving mode, no step of a
\* poll or pre-wake of that sensor sends a relay-ON or relay-OFF command to that
\* voltage meter.
C38_NoForcedRelayAfterAuto ==
    [][\A sid, vm \in Ids :
          ( /\ relay[vm] = "auto"
            /\ Registered(sid)
            /\ sensors[sid].sensor_type = PURPLE_AIR
            /\ sensors[sid].power_mode = NORMAL
            /\ ev'.sid = sid
            /\ ev'.op \in PollOps \cup PrewakeOps ) =>
              ev'.cmd \notin {<<vm, "on">>, <<vm, "off">>}
      ]_vars

\* C39: every relay-ON command a pre-wake sends to the voltage meter is followed,
\* sooner or later, by a relay-OFF or auto-mode command to it.
C39_RelayOnLeadsToOff ==
    (ev.op = "prewake_start" /\ ev.cmd = <<"v1", "on">>) ~> (relay["v1"] \in {"off", "auto"})

----------------------------------------------------------------------------
(* Recovery alerts and the fault alerts they answer *)

\* The alerts of a kind sent for a sensor among the first n
SentBefore(kind, sid, n) ==
    Cardinality({i \in 1..n : outbox[i].kind = kind /\ outbox[i].sid = sid})

\* C40: before every recovery alert sent for a sensor, more fault alerts than
\* recovery alerts were sent for it: the recovery answers a fault alert that no
\* earlier recovery alert has answered.
C40_RecoveryAnswersFault ==
    \A i \in 1..Len(outbox) :
        outbox[i].kind = "recovery" =>
            SentBefore("fault", outbox[i].sid, i - 1) > SentBefore("recovery", outbox[i].sid, i - 1)

====
